---- MODULE Spec2Model ----
(***************************************************************************)
(* Connection resilience layer of @kitiumai/database: the retry            *)
(* coordinator and its backoff strategies, and the per-engine database     *)
(* adapters (PostgresAdapter, MongoAdapter) with their client wrappers and *)
(* health-check helpers.                                                   *)
(*                                                                         *)
(* Asynchronous functions are cut at their real suspension points (the     *)
(* engine handshake, the backoff sleep, the engine close, the liveness     *)
(* probe and its timer); the code between two suspension points is one     *)
(* action.                                                                 *)
(***************************************************************************)
EXTENDS Integers, Sequences, FiniteSets, TLC

\* Bounds of the model.
MaxRetriesOpt == 2      \* largest explicit options.maxRetries / config.retry.maxRetries
MaxHandles == 3         \* client handles that can be referenced at one time

\* Program constants.
DefaultMaxRetries == 3          \* options.maxRetries ?? 3
DefaultBaseDelay == 1000        \* options.baseDelay ?? 1000
DefaultTimeoutMs == 5000        \* config.observability?.timeoutMs ?? 5000

Undefined == -1        \* an option or configuration field that is not given
Null == 0              \* no client handle

Execs == {"e1", "e2"}
Callers == {"c1", "c2"}
Strategies == {"exponential", "linear"}
Hooks == {"none", "returns", "throws"}
BaseDelays == {Undefined, 100}
MaxRetriesOpts == {Undefined} \cup (0 .. MaxRetriesOpt)

VARIABLES
    exec,                 \* RetryCoordinator.execute calls: Execs -> execution record
    strategy,             \* RetryCoordinator.strategy of the coordinator under test
    adapterName,          \* IDatabaseAdapter.name
    adapterStrategy,      \* the strategy the adapter's constructor was given
    config,               \* the resolved configuration passed to connect(config)
    client,               \* (Prisma|Mongo)ClientWrapper.client: Null or a handle
    healthCheckProvider,  \* adapter.healthCheckProvider: NoHelper or a helper record
    call,                 \* adapter method calls in progress: Callers -> call record
    lifecycle,            \* outcome of the last completed connect()/disconnect()
    adapters,             \* HealthCheckOrchestrator.adapters: sequence of adapter objects
    ocall,                \* the orchestrator call in progress
    removedNames,         \* names dropped by removeAdapter()/clear() and not added since
    registry,             \* DatabaseAdapterRegistry.adapters: the Map's entries, in order
    rcall,                \* the last DatabaseAdapterRegistry call and its outcome
    queryMetrics,         \* MetricsCollector.queryMetrics
    connectionMetrics,    \* MetricsCollector.connectionMetrics
    now,                  \* Date.now()
    recorded,             \* number of samples recorded so far
    issued,               \* handles returned by recordConnection: sample id -> index
    mcall,                \* the last MetricsCollector call and its outcome
    facade,               \* the facade module's variables (instance, shutdown flags)
    finst,                \* the instances the facade created: id -> state
    fcall,                \* facade calls and signal handlers in progress
    ignoredSignals,       \* signals whose handler returned at the reentrancy guard
    jitter,               \* the last ExponentialBackoffWithJitterStrategy construction
    dcall,                \* the last calculateDelay call and its result
    legacy,               \* a legacy retryWithBackoff run beside an execute() run
    abandoned             \* callers whose timed-out check left its probe outstanding

retryVars == <<exec, strategy>>
adapterVars == <<adapterName, adapterStrategy, config, client, healthCheckProvider, call,
                 lifecycle>>
orchVars == <<adapters, ocall, removedNames>>
registryVars == <<registry, rcall>>
metricsVars == <<queryMetrics, connectionMetrics, now, recorded, issued, mcall>>
facadeVars == <<facade, finst, fcall, ignoredSignals>>
delayVars == <<jitter, dcall>>
legacyVars == <<legacy>>
probeVars == <<abandoned>>
vars == <<exec, strategy, adapterName, adapterStrategy, config, client, healthCheckProvider,
          call, lifecycle, adapters, ocall, removedNames, registry, rcall, queryMetrics,
          connectionMetrics, now, recorded, issued, mcall, facade, finst, fcall,
          ignoredSignals, jitter, dcall, legacy, abandoned>>

----------------------------------------------------------------------------
(* Retry strategies *)

\* 2 ** n
RECURSIVE Pow2(_)
Pow2(n) == IF n <= 0 THEN 1 ELSE 2 * Pow2(n - 1)

\* mutant: the first delay is already doubled
ExponentialCalculateDelay_FromTwo(attempt, baseDelay) == baseDelay * Pow2(attempt + 1)

\* ExponentialBackoffStrategy.calculateDelay: baseDelay * (2 ** attempt)
ExponentialCalculateDelay(attempt, baseDelay) == baseDelay * Pow2(attempt)

\* mutant: retries once more than maxRetries allows
ExponentialShouldRetry_OffByOne(attempt, maxRetries, error) == attempt <= maxRetries

\* ExponentialBackoffStrategy.shouldRetry
ExponentialShouldRetry(attempt, maxRetries, error) == attempt < maxRetries

\* LinearBackoffStrategy.calculateDelay: baseDelay * (attempt + 1)
LinearCalculateDelay(attempt, baseDelay) == baseDelay * (attempt + 1)

\* LinearBackoffStrategy.shouldRetry
LinearShouldRetry(attempt, maxRetries, error) == attempt < maxRetries

\* The adapters' inline default strategy (constructor, finalStrategy).
DefaultCalculateDelay(attempt, baseDelay) == baseDelay * Pow2(attempt)

DefaultShouldRetry(attempt, maxRetries, error) == attempt < maxRetries

\* this.strategy.calculateDelay / this.strategy.shouldRetry: dynamic dispatch
calculateDelay(s, attempt, baseDelay) ==
    CASE s = "exponential" -> ExponentialCalculateDelay(attempt, baseDelay)
      [] s = "linear" -> LinearCalculateDelay(attempt, baseDelay)
      [] OTHER -> DefaultCalculateDelay(attempt, baseDelay)

shouldRetry(s, attempt, maxRetries, error) ==
    CASE s = "exponential" -> ExponentialShouldRetry(attempt, maxRetries, error)
      [] s = "linear" -> LinearShouldRetry(attempt, maxRetries, error)
      [] OTHER -> DefaultShouldRetry(attempt, maxRetries, error)

----------------------------------------------------------------------------
(* RetryCoordinator.execute *)

NoError == <<"none">>
HookError == <<"onRetry threw">>
OpError(k) == <<"operation failed", k>>     \* the error thrown by the k-th invocation

IdleExec ==
    [pc |-> "idle", maxRetries |-> 0, baseDelay |-> 0, hook |-> "none", attempt |-> 0,
     calls |-> 0, hookCalls |-> <<>>, delays |-> <<>>, error |-> NoError]

\* execute(): options defaults, attempt = 0, and the first operation() call
ExecBegin(maxRetriesOpt, baseDelayOpt, hook) ==
    [pc |-> "awaitOp",
     maxRetries |-> IF maxRetriesOpt = Undefined THEN DefaultMaxRetries ELSE maxRetriesOpt,
     baseDelay |-> IF baseDelayOpt = Undefined THEN DefaultBaseDelay ELSE baseDelayOpt,
     hook |-> hook, attempt |-> 0, calls |-> 1, hookCalls |-> <<>>,
     delays |-> <<>>, error |-> NoError]

\* mutant: the retry callback runs before the retry decision
ExecCatch_HookFirst(s, e, err) ==
    IF e.hook = "throws"
    THEN [e EXCEPT !.pc = "rejected", !.error = HookError,
                   !.hookCalls = Append(@, e.attempt + 1)]
    ELSE IF ~shouldRetry(s, e.attempt, e.maxRetries, err)
    THEN [e EXCEPT !.pc = "rejected", !.error = err,
                   !.hookCalls = IF e.hook = "none" THEN @ ELSE Append(@, e.attempt + 1)]
    ELSE [e EXCEPT !.pc = "sleep",
                   !.hookCalls = IF e.hook = "none" THEN @ ELSE Append(@, e.attempt + 1),
                   !.delays = Append(@, calculateDelay(s, e.attempt, e.baseDelay))]

\* mutant: a throwing retry callback is caught and the retry goes on
ExecCatch_HookCaught(s, e, err) ==
    IF ~shouldRetry(s, e.attempt, e.maxRetries, err)
    THEN [e EXCEPT !.pc = "rejected", !.error = err]
    ELSE [e EXCEPT !.pc = "sleep",
                   !.hookCalls = IF e.hook = "none" THEN @ ELSE Append(@, e.attempt + 1),
                   !.delays = Append(@, calculateDelay(s, e.attempt, e.baseDelay))]

\* execute(): the catch block, up to the sleep; s is this.strategy at that time
ExecCatch(s, e, err) ==
    IF ~shouldRetry(s, e.attempt, e.maxRetries, err)
    THEN [e EXCEPT !.pc = "rejected", !.error = err]
    ELSE IF e.hook = "throws"
    THEN [e EXCEPT !.pc = "rejected", !.error = HookError,
                   !.hookCalls = Append(@, e.attempt + 1)]
    ELSE [e EXCEPT !.pc = "sleep",
                   !.hookCalls = IF e.hook = "none" THEN @ ELSE Append(@, e.attempt + 1),
                   !.delays = Append(@, calculateDelay(s, e.attempt, e.baseDelay))]

\* mutant: the attempt counter advances by two, as if shared with another call
ExecWake_SharedCounter(e) ==
    [e EXCEPT !.pc = "awaitOp", !.attempt = @ + 2, !.calls = @ + 1]

\* execute(): after the sleep, attempt++ and the next operation() call
ExecWake(e) ==
    [e EXCEPT !.pc = "awaitOp", !.attempt = @ + 1, !.calls = @ + 1]

\* execute(): return await operation()
ExecReturn(e) == [e EXCEPT !.pc = "resolved"]

\* A caller starts coordinator.execute(operation, options).
Execute(x) ==
    /\ exec[x].pc = "idle"
    /\ \E mr \in MaxRetriesOpts, bd \in BaseDelays, hk \in Hooks :
         exec' = [exec EXCEPT ![x] = ExecBegin(mr, bd, hk)]
    /\ UNCHANGED <<strategy, adapterVars, orchVars, registryVars, metricsVars, facadeVars, delayVars, legacyVars, probeVars>>

\* The awaited operation resolves.
OperationResolves(x) ==
    /\ exec[x].pc = "awaitOp"
    /\ exec' = [exec EXCEPT ![x] = ExecReturn(@)]
    /\ UNCHANGED <<strategy, adapterVars, orchVars, registryVars, metricsVars, facadeVars, delayVars, legacyVars, probeVars>>

\* The awaited operation rejects.
OperationRejects(x) ==
    /\ exec[x].pc = "awaitOp"
    /\ exec' = [exec EXCEPT ![x] = ExecCatch(strategy, @, OpError(@.calls))]
    /\ UNCHANGED <<strategy, adapterVars, orchVars, registryVars, metricsVars, facadeVars, delayVars, legacyVars, probeVars>>

\* The backoff sleep ends.
SleepEnds(x) ==
    /\ exec[x].pc = "sleep"
    /\ exec' = [exec EXCEPT ![x] = ExecWake(@)]
    /\ UNCHANGED <<strategy, adapterVars, orchVars, registryVars, metricsVars, facadeVars, delayVars, legacyVars, probeVars>>

\* RetryCoordinator.setStrategy
SetStrategy(s) ==
    /\ strategy # s
    /\ strategy' = s
    /\ UNCHANGED <<exec, adapterVars, orchVars, registryVars, metricsVars, facadeVars, delayVars, legacyVars, probeVars>>

NextRetry ==
    \/ \E x \in Execs : Execute(x)
    \/ \E x \in Execs : OperationResolves(x)
    \/ \E x \in Execs : OperationRejects(x)
    \/ \E x \in Execs : SleepEnds(x)
    \/ \E s \in Strategies : SetStrategy(s)

InitRetry ==
    /\ exec = [x \in Execs |-> IdleExec]
    /\ strategy \in Strategies

----------------------------------------------------------------------------
(* Database adapter (PostgresAdapter / MongoAdapter), client wrapper, health check *)

Handles == 1 .. MaxHandles
TimeoutOpts == {Undefined, 50}
AdapterStrategies == {"default", "exponential"}

\* Partial<DatabaseConfig>: retry.maxRetries, retry.retryDelay, the connection URL
\* (databaseUrl / mongo.mongodbUrl) and observability.timeoutMs
Configs ==
    [maxRetries : MaxRetriesOpts, retryDelay : BaseDelays, urlOk : BOOLEAN,
     timeoutMs : TimeoutOpts]

ConfigError == <<"URL is required">>        \* thrown by createClient
HandshakeError(k) == <<"handshake failed", k>>
CloseError == <<"close failed">>
ProbeError == <<"probe failed">>
TimeoutMessage(ms) == <<"Health check timeout after", ms, "ms">>
NotInitializedMessage == <<"Health check not initialized">>

\* adapter.healthCheckProvider = null
NoHelper == [client |-> Null, timeoutMs |-> 0]

NoResult == [kind |-> "none", code |-> <<>>, status |-> "", detail |-> NoError]

\* a resolved Promise<void>
Void == [NoResult EXCEPT !.kind = "void"]

\* toKitiumError(error, {code, ...}) / new InternalError({code, ...})
KitiumError(code, cause) ==
    [kind |-> "error", code |-> <<adapterName, code>>, status |-> "", detail |-> cause]

\* HealthReport {service, status, details: {error}}
Report(status, detail) ==
    [kind |-> "report", code |-> <<adapterName>>, status |-> status, detail |-> detail]

IdleCall ==
    [op |-> "none", pc |-> "idle", exec |-> IdleExec, handle |-> Null, timeoutMs |-> 0,
     settledBy |-> "none", result |-> NoResult,
     pre |-> [connected |-> FALSE, helper |-> FALSE], handshakes |-> 0, closes |-> 0]

InFlight(c) == call[c].pc \notin {"idle", "resolved", "rejected"}

\* (Prisma|Mongo)ClientWrapper.isConnected, read by adapter.isConnected()
isConnected == client # Null

\* A call of method op begins; pre is what the adapter held at that time.
NewCall(op) ==
    [IdleCall EXCEPT !.op = op,
                     !.pre = [connected |-> isConnected,
                              helper |-> healthCheckProvider # NoHelper]]

Referenced == {client, healthCheckProvider.client} \cup {call[c].handle : c \in Callers}

FreeHandles == Handles \ Referenced

\* factory.createClient: a new client object
NewHandle == CHOOSE h \in FreeHandles : \A g \in FreeHandles : h <= g

\* outcome of the last completed connect()/disconnect(), after call record r
LifecycleAfter(r) ==
    IF r.op = "connect" /\ r.pc = "resolved" THEN "connected"
    ELSE IF r.op = "connect" /\ r.pc = "rejected"
         THEN (IF lifecycle = "connected" THEN "connected" ELSE "connectFailed")
    ELSE IF r.op = "disconnect" /\ r.pc = "resolved" THEN "disconnected"
    ELSE lifecycle

\* connect(): the catch block (toKitiumError, log, throw)
ConnectCatch(r) ==
    [r EXCEPT !.pc = "rejected", !.handle = Null,
              !.result = KitiumError("connection_failed", r.exec.error)]

\* connect(): the operation rejected and execute() ran its catch block to e2
AfterExecCatch(r, e2) ==
    IF e2.pc = "rejected"
    THEN ConnectCatch([r EXCEPT !.exec = e2])
    ELSE [r EXCEPT !.exec = e2, !.pc = "sleep", !.handle = Null]

\* wrapper.getOrCreate: createClient throws when the URL is missing
CreateClientThrows == client = Null /\ ~config.urlOk

\* The operation closure of connect(): getOrCreate(config), then client.$connect()
\* (client.connect() for MongoDB) is called and awaited.
Operation(c, r) ==
    IF CreateClientThrows
    THEN LET r2 == AfterExecCatch(r, ExecCatch(adapterStrategy, r.exec, ConfigError))
         IN /\ call' = [call EXCEPT ![c] = r2]
            /\ lifecycle' = LifecycleAfter(r2)
            /\ UNCHANGED <<client, healthCheckProvider>>
    ELSE /\ client # Null \/ FreeHandles # {}
         /\ client' = IF client = Null THEN NewHandle ELSE client
         /\ call' = [call EXCEPT ![c] =
                        [r EXCEPT !.pc = "handshake", !.handle = client',
                                  !.handshakes = @ + 1]]
         /\ UNCHANGED <<healthCheckProvider, lifecycle>>

\* adapter.connect(config): up to the first await
Connect(c) ==
    /\ call[c].pc = "idle"
    /\ Operation(c, [NewCall("connect") EXCEPT
                        !.exec = ExecBegin(config.maxRetries, config.retryDelay, "returns")])
    /\ UNCHANGED <<adapterName, adapterStrategy, config, retryVars,
                   orchVars, registryVars, metricsVars, facadeVars, delayVars, legacyVars, probeVars>>

\* connect(): after execute() returned, the health check is bound to the client
ConnectBindHealthCheck ==
    IF client # Null
    THEN [client |-> client,
          timeoutMs |-> IF config.timeoutMs = Undefined THEN DefaultTimeoutMs
                        ELSE config.timeoutMs]
    ELSE healthCheckProvider

\* The engine handshake succeeds: execute() returns and connect() resolves.
HandshakeResolves(c) ==
    /\ call[c].pc = "handshake"
    /\ LET r2 == [call[c] EXCEPT !.exec = ExecReturn(@), !.pc = "resolved", !.handle = Null,
                                 !.result = Void]
       IN /\ healthCheckProvider' = ConnectBindHealthCheck
          /\ call' = [call EXCEPT ![c] = r2]
          /\ lifecycle' = LifecycleAfter(r2)
    /\ UNCHANGED <<adapterName, adapterStrategy, config, client, retryVars,
                   orchVars, registryVars, metricsVars, facadeVars, delayVars, legacyVars, probeVars>>

\* The engine handshake fails: execute() catches, then retries or gives up.
HandshakeRejects(c) ==
    /\ call[c].pc = "handshake"
    /\ LET r2 == AfterExecCatch(call[c],
                    ExecCatch(adapterStrategy, call[c].exec,
                              HandshakeError(call[c].exec.calls)))
       IN /\ call' = [call EXCEPT ![c] = r2]
          /\ lifecycle' = LifecycleAfter(r2)
    /\ UNCHANGED <<adapterName, adapterStrategy, config, client, healthCheckProvider,
                   retryVars, orchVars, registryVars, metricsVars, facadeVars, delayVars, legacyVars, probeVars>>

\* The backoff sleep of connect()'s execute() ends: the operation runs again.
BackoffEnds(c) ==
    /\ call[c].pc = "sleep"
    /\ Operation(c, [call[c] EXCEPT !.exec = ExecWake(@)])
    /\ UNCHANGED <<adapterName, adapterStrategy, config, retryVars,
                   orchVars, registryVars, metricsVars, facadeVars, delayVars, legacyVars, probeVars>>

\* wrapper.disconnect() found no client: the adapter unbinds the helper and returns
DisconnectNoClient(r) == [r EXCEPT !.pc = "resolved", !.result = Void]

\* wrapper.disconnect(): client.$disconnect() (client.close()) is called and awaited
DisconnectClose(r) == [r EXCEPT !.pc = "closing", !.handle = client, !.closes = @ + 1]

\* adapter.disconnect() with wrapper.disconnect(): up to the await of the close
Disconnect(c) ==
    /\ call[c].pc = "idle"
    /\ IF client = Null
       THEN LET r2 == DisconnectNoClient(NewCall("disconnect"))
            IN /\ call' = [call EXCEPT ![c] = r2]
               /\ healthCheckProvider' = NoHelper
               /\ lifecycle' = LifecycleAfter(r2)
               /\ UNCHANGED client
       ELSE /\ call' = [call EXCEPT ![c] = DisconnectClose(NewCall("disconnect"))]
            /\ UNCHANGED <<client, healthCheckProvider, lifecycle>>
    /\ UNCHANGED <<adapterName, adapterStrategy, config, retryVars,
                   orchVars, registryVars, metricsVars, facadeVars, delayVars, legacyVars, probeVars>>

\* The engine close succeeds: wrapper sets client = null, adapter unbinds the helper.
CloseResolves(c) ==
    /\ call[c].pc = "closing"
    /\ LET r2 == [call[c] EXCEPT !.pc = "resolved", !.handle = Null,
                                 !.settledBy = "closeResolved", !.result = Void]
       IN /\ call' = [call EXCEPT ![c] = r2]
          /\ lifecycle' = LifecycleAfter(r2)
    /\ client' = Null
    /\ healthCheckProvider' = NoHelper
    /\ UNCHANGED <<adapterName, adapterStrategy, config, retryVars,
                   orchVars, registryVars, metricsVars, facadeVars, delayVars, legacyVars, probeVars>>

\* mutant: the close failure is rethrown to the caller
DisconnectCatch_Rethrow(r) ==
    [r EXCEPT !.pc = "rejected", !.handle = Null, !.settledBy = "closeRejected",
              !.result = KitiumError("disconnect_failed", CloseError)]

\* disconnect(): the catch block (toKitiumError, log, no rethrow)
DisconnectCatch(r) ==
    [r EXCEPT !.pc = "resolved", !.handle = Null, !.settledBy = "closeRejected",
              !.result = Void]

\* The engine close fails: the wrapper's await throws before client = null.
CloseRejects(c) ==
    /\ call[c].pc = "closing"
    /\ LET r2 == DisconnectCatch(call[c])
       IN /\ call' = [call EXCEPT ![c] = r2]
          /\ lifecycle' = LifecycleAfter(r2)
    /\ UNCHANGED <<adapterName, adapterStrategy, config, client, healthCheckProvider,
                   retryVars, orchVars, registryVars, metricsVars, facadeVars, delayVars, legacyVars, probeVars>>

\* adapter.getClient(): throws not-initialized when the wrapper holds no client
GetClientThrows == client = Null

\* adapter.query(): getClient(), then the (stubbed) execution
Query(c) ==
    /\ call[c].pc = "idle"
    /\ call' = [call EXCEPT ![c] =
                  IF GetClientThrows
                  THEN [NewCall("query") EXCEPT
                          !.pc = "rejected",
                          !.result = KitiumError("not_initialized", NoError)]
                  ELSE [NewCall("query") EXCEPT
                          !.pc = "resolved", !.result = [NoResult EXCEPT !.kind = "value"]]]
    /\ UNCHANGED <<adapterName, adapterStrategy, config, client, healthCheckProvider,
                   lifecycle, retryVars,
                   orchVars, registryVars, metricsVars, facadeVars, delayVars, legacyVars, probeVars>>

\* mutant: an unbound helper makes healthCheck() reject
HealthCheckUnbound_Throws(r) ==
    [r EXCEPT !.pc = "rejected", !.result = KitiumError("not_initialized", NoError)]

\* adapter.healthCheck() with no helper bound
HealthCheckUnbound(r) ==
    [r EXCEPT !.pc = "resolved", !.result = Report("unhealthy", NotInitializedMessage)]

\* adapter.healthCheck(); with a helper, helper.check() arms the timer and starts
\* the probe
HealthCheck(c) ==
    /\ call[c].pc = "idle"
    /\ call' = [call EXCEPT ![c] =
                  IF healthCheckProvider = NoHelper
                  THEN HealthCheckUnbound(NewCall("healthCheck"))
                  ELSE [NewCall("healthCheck") EXCEPT
                          !.pc = "probing", !.handle = healthCheckProvider.client,
                          !.timeoutMs = healthCheckProvider.timeoutMs]]
    /\ UNCHANGED <<adapterName, adapterStrategy, config, client, healthCheckProvider,
                   lifecycle, retryVars,
                   orchVars, registryVars, metricsVars, facadeVars, delayVars, legacyVars, probeVars>>

\* check(): the race was won by the probe's success
CheckPassed(r) ==
    [r EXCEPT !.pc = "resolved", !.handle = Null, !.settledBy = "probeResolved",
              !.result = Report("ready", NoError)]

\* check(): the catch block, for the error that won the race
CheckFailed(r, by, message) ==
    [r EXCEPT !.pc = "resolved", !.handle = Null, !.settledBy = by,
              !.result = Report("unhealthy", message)]

\* The liveness probe succeeds before the timer fires.
ProbeResolves(c) ==
    /\ call[c].pc = "probing"
    /\ call' = [call EXCEPT ![c] = CheckPassed(@)]
    /\ UNCHANGED <<adapterName, adapterStrategy, config, client, healthCheckProvider,
                   lifecycle, retryVars,
                   orchVars, registryVars, metricsVars, facadeVars, delayVars, legacyVars, probeVars>>

\* The liveness probe fails before the timer fires.
ProbeRejects(c) ==
    /\ call[c].pc = "probing"
    /\ call' = [call EXCEPT ![c] = CheckFailed(@, "probeRejected", ProbeError)]
    /\ UNCHANGED <<adapterName, adapterStrategy, config, client, healthCheckProvider,
                   lifecycle, retryVars,
                   orchVars, registryVars, metricsVars, facadeVars, delayVars, legacyVars, probeVars>>

\* mutant: the timeout is reported as a passed check
CheckTimedOut_Ready(r) ==
    [r EXCEPT !.pc = "resolved", !.handle = Null, !.settledBy = "timer",
              !.result = Report("ready", NoError)]

\* check(): the timer's rejection won the race
CheckTimedOut(r) == CheckFailed(r, "timer", TimeoutMessage(r.timeoutMs))

\* The timer fires before the probe settles.
TimerFires(c) ==
    /\ call[c].pc = "probing"
    /\ call' = [call EXCEPT ![c] = CheckTimedOut(@)]
    /\ UNCHANGED <<adapterName, adapterStrategy, config, client, healthCheckProvider,
                   lifecycle, retryVars,
                   orchVars, registryVars, metricsVars, facadeVars, delayVars, legacyVars, probeVars>>

\* The caller's await of a settled call continues.
Return(c) ==
    /\ call[c].pc \in {"resolved", "rejected"}
    /\ call' = [call EXCEPT ![c] = IdleCall]
    /\ UNCHANGED <<adapterName, adapterStrategy, config, client, healthCheckProvider,
                   lifecycle, retryVars,
                   orchVars, registryVars, metricsVars, facadeVars, delayVars, legacyVars, probeVars>>

\* Calls by concurrent callers of one adapter.
Next ==
    \/ \E c \in Callers : Connect(c)
    \/ \E c \in Callers : HandshakeResolves(c)
    \/ \E c \in Callers : HandshakeRejects(c)
    \/ \E c \in Callers : BackoffEnds(c)
    \/ \E c \in Callers : Disconnect(c)
    \/ \E c \in Callers : CloseResolves(c)
    \/ \E c \in Callers : CloseRejects(c)
    \/ \E c \in Callers : Query(c)
    \/ \E c \in Callers : HealthCheck(c)
    \/ \E c \in Callers : ProbeResolves(c)
    \/ \E c \in Callers : ProbeRejects(c)
    \/ \E c \in Callers : TimerFires(c)
    \/ \E c \in Callers : Return(c)

\* Calls by one caller that awaits each call before making the next.
SeqCallers == {"c1"}

NextSeq ==
    \/ \E c \in SeqCallers : Connect(c)
    \/ \E c \in SeqCallers : HandshakeResolves(c)
    \/ \E c \in SeqCallers : HandshakeRejects(c)
    \/ \E c \in SeqCallers : BackoffEnds(c)
    \/ \E c \in SeqCallers : Disconnect(c)
    \/ \E c \in SeqCallers : CloseResolves(c)
    \/ \E c \in SeqCallers : CloseRejects(c)
    \/ \E c \in SeqCallers : Query(c)
    \/ \E c \in SeqCallers : HealthCheck(c)
    \/ \E c \in SeqCallers : ProbeResolves(c)
    \/ \E c \in SeqCallers : ProbeRejects(c)
    \/ \E c \in SeqCallers : TimerFires(c)
    \/ \E c \in SeqCallers : Return(c)

InitAdapter ==
    /\ adapterName \in {"postgres", "mongodb"}
    /\ adapterStrategy \in AdapterStrategies
    /\ config \in Configs
    /\ client = Null
    /\ healthCheckProvider = NoHelper
    /\ call = [c \in Callers |-> IdleCall]
    /\ lifecycle = "none"

----------------------------------------------------------------------------
(* HealthCheckOrchestrator *)

MaxAdapters == 2       \* longest adapter array handed to the constructor

\* IDatabaseAdapter objects the orchestrator and the registry can be given
AdapterObjs == {"pg1", "pg2", "mongo1", "mongo2"}

\* adapter.name
NameOf(a) == IF a \in {"mongo1", "mongo2"} THEN "mongodb" ELSE "postgres"

\* HealthReport['service']
ServiceNames == {"postgres", "mongodb"}

\* HealthReport['status']
Statuses == {"ready", "initializing", "unhealthy"}

AdapterError == <<"adapter health check failed">>
NotFoundError(name) == <<"Adapter not found in orchestrator", name>>

\* What one adapter.healthCheck() call does: the report status it resolves with (or
\* that it rejects), after how long, and whether that was its helper's timeout.
HealthCheckOutcomes ==
    [status : {"ready"}, duration : {0, 20}, timedOut : {FALSE}]
    \cup [status : {"initializing", "unhealthy", "rejects"}, duration : {0},
          timedOut : {FALSE}]
    \cup [status : {"unhealthy"}, duration : {DefaultTimeoutMs}, timedOut : {TRUE}]

\* a healthCheck() promise that has not settled
Pending == [status |-> "pending", duration |-> 0, timedOut |-> FALSE]

\* HealthReport {service, status, details: {error, timestamp}}
HealthReport(service, status, error, timestamp) ==
    [service |-> service, status |-> status,
     details |-> [error |-> error, timestamp |-> timestamp]]

\* the report an adapter's own healthCheck() resolved with
AdapterReport(a, outcome) ==
    IF outcome.timedOut
    THEN HealthReport(NameOf(a), "unhealthy", TimeoutMessage(outcome.duration), TRUE)
    ELSE HealthReport(NameOf(a), outcome.status, NoError, FALSE)

\* checkAll() / check(): the catch conversion of a rejected healthCheck()
CaughtReport(service, error) == HealthReport(service, "unhealthy", error, TRUE)

\* mutant: a rejected healthCheck() is reported as ready
Defensive_Ready(service, a, outcome) ==
    IF outcome.status = "rejects"
    THEN HealthReport(service, "ready", NoError, FALSE)
    ELSE AdapterReport(a, outcome)

\* adapter.healthCheck().catch(...) of checkAll(), try/catch of check()
Defensive(service, a, outcome) ==
    IF outcome.status = "rejects"
    THEN CaughtReport(service, AdapterError)
    ELSE AdapterReport(a, outcome)

\* mutant: the first held adapter is never looked at
FindIndex_FromSecond(arr, name, i) ==
    IF \E j \in 2 .. Len(arr) : NameOf(arr[j]) = name
    THEN CHOOSE j \in 2 .. Len(arr) : NameOf(arr[j]) = name
    ELSE 0

\* this.adapters.find((a) => a.name === name): index of the first match, 0 if none
RECURSIVE FindIndex(_, _, _)
FindIndex(arr, name, i) ==
    IF i > Len(arr) THEN 0
    ELSE IF NameOf(arr[i]) = name THEN i
    ELSE FindIndex(arr, name, i + 1)

Held(arr, name) == FindIndex(arr, name, 1) # 0

\* this.adapters.splice(index, 1)
Splice(arr, index) == [i \in 1 .. Len(arr) - 1 |-> IF i < index THEN arr[i] ELSE arr[i + 1]]

\* reports.every((report) => report.status === 'ready')
EveryReady(reports) == \A i \in 1 .. Len(reports) : reports[i].status = "ready"

\* mutant: one ready report is enough
isHealthy_AnyReady(reports) == \E i \in 1 .. Len(reports) : reports[i].status = "ready"

\* isHealthy(): the value computed from checkAll()'s reports
isHealthy(reports) == EveryReady(reports)

\* mutant: no adapters is reported as ready
getAggregatedStatus_EmptyReady(reports) ==
    LET healthyCount == Cardinality({i \in 1 .. Len(reports) : reports[i].status = "ready"})
        totalCount == Len(reports)
    IN IF healthyCount = totalCount THEN "ready"
       ELSE IF healthyCount > 0 THEN "degraded"
       ELSE "unhealthy"

\* getAggregatedStatus(): the value computed from checkAll()'s reports
getAggregatedStatus(reports) ==
    LET healthyCount == Cardinality({i \in 1 .. Len(reports) : reports[i].status = "ready"})
        totalCount == Len(reports)
    IN IF Len(reports) = 0 THEN "unhealthy"
       ELSE IF healthyCount = totalCount THEN "ready"
       ELSE IF healthyCount > 0 THEN "degraded"
       ELSE "unhealthy"

IdleOCall ==
    [op |-> "none", pc |-> "idle", name |-> "", heldAtCall |-> <<>>, snapshot |-> <<>>,
     slots |-> <<>>, clock |-> 0, reports |-> <<>>, value |-> "", error |-> NoError]

\* mutant: only the first adapter's health check is started before the wait
FanOut_FirstOnly(arr) ==
    [i \in 1 .. Len(arr) |-> IF i = 1 THEN Pending ELSE [Pending EXCEPT !.status = "notStarted"]]

\* this.adapters.map((adapter) => adapter.healthCheck()...): every healthCheck() is
\* called, and so started, before Promise.all is awaited
FanOut(arr) == [i \in 1 .. Len(arr) |-> Pending]

\* every awaited healthCheck() has settled: the call computes its result
Finish(r) ==
    LET reports == [i \in 1 .. Len(r.snapshot) |->
                       Defensive(IF r.op = "check" THEN r.name ELSE NameOf(r.snapshot[i]),
                                 r.snapshot[i], r.slots[i])]
    IN [r EXCEPT !.pc = "resolved",
                 !.reports = reports,
                 !.value = CASE r.op = "isHealthy" ->
                                  (IF isHealthy(reports) THEN "true" ELSE "false")
                             [] r.op = "getAggregatedStatus" -> getAggregatedStatus(reports)
                             [] OTHER -> ""]

\* checkAll(), called directly or by isHealthy() / getAggregatedStatus(): up to the
\* await of Promise.all
StartCheckAll(op) ==
    LET r == [IdleOCall EXCEPT !.op = op, !.pc = "awaiting", !.heldAtCall = adapters,
                               !.snapshot = adapters, !.slots = FanOut(adapters)]
    IN IF Len(adapters) = 0 THEN Finish(r) ELSE r

CheckAll ==
    /\ ocall.pc = "idle"
    /\ ocall' = StartCheckAll("checkAll")
    /\ UNCHANGED <<adapters, removedNames, retryVars, adapterVars, registryVars, metricsVars, facadeVars, delayVars, legacyVars, probeVars>>

IsHealthy ==
    /\ ocall.pc = "idle"
    /\ ocall' = StartCheckAll("isHealthy")
    /\ UNCHANGED <<adapters, removedNames, retryVars, adapterVars, registryVars, metricsVars, facadeVars, delayVars, legacyVars, probeVars>>

GetAggregatedStatus ==
    /\ ocall.pc = "idle"
    /\ ocall' = StartCheckAll("getAggregatedStatus")
    /\ UNCHANGED <<adapters, removedNames, retryVars, adapterVars, registryVars, metricsVars, facadeVars, delayVars, legacyVars, probeVars>>

\* check(adapterName): find, throw not-found, or call healthCheck() and await it
Check(name) ==
    /\ ocall.pc = "idle"
    /\ LET index == FindIndex(adapters, name, 1)
           r == [IdleOCall EXCEPT !.op = "check", !.name = name, !.heldAtCall = adapters]
       IN ocall' = IF index = 0
                   THEN [r EXCEPT !.pc = "rejected", !.error = NotFoundError(name)]
                   ELSE [r EXCEPT !.pc = "awaiting", !.snapshot = <<adapters[index]>>,
                                  !.slots = <<Pending>>]
    /\ UNCHANGED <<adapters, removedNames, retryVars, adapterVars, registryVars, metricsVars, facadeVars, delayVars, legacyVars, probeVars>>

\* One awaited adapter.healthCheck() settles, out.duration after it was started; when
\* it was the last one, the call continues to its result.
HealthCheckSettles(i, out) ==
    /\ ocall.pc = "awaiting"
    /\ i \in 1 .. Len(ocall.slots)
    /\ ocall.slots[i] = Pending
    /\ out.duration >= ocall.clock
    /\ LET r == [ocall EXCEPT !.slots[i] = out, !.clock = out.duration]
       IN ocall' = IF \A j \in 1 .. Len(r.slots) : r.slots[j].status \notin {"pending", "notStarted"}
                   THEN Finish(r)
                   ELSE r
    /\ UNCHANGED <<adapters, removedNames, retryVars, adapterVars, registryVars, metricsVars, facadeVars, delayVars, legacyVars, probeVars>>

\* addAdapter(adapter)
AddAdapter(a) ==
    /\ adapters' = IF Held(adapters, NameOf(a)) THEN adapters ELSE Append(adapters, a)
    /\ removedNames' = removedNames \ {NameOf(a)}
    /\ UNCHANGED <<ocall, retryVars, adapterVars, registryVars, metricsVars, facadeVars, delayVars, legacyVars, probeVars>>

\* removeAdapter(adapterName)
RemoveAdapter(name) ==
    /\ LET index == FindIndex(adapters, name, 1)
       IN /\ adapters' = IF index > 0 THEN Splice(adapters, index) ELSE adapters
          /\ removedNames' = IF index > 0 THEN removedNames \cup {name} ELSE removedNames
    /\ UNCHANGED <<ocall, retryVars, adapterVars, registryVars, metricsVars, facadeVars, delayVars, legacyVars, probeVars>>

\* clear() of the orchestrator
OrchestratorClear ==
    /\ adapters' = <<>>
    /\ removedNames' = removedNames \cup {NameOf(adapters[i]) : i \in 1 .. Len(adapters)}
    /\ UNCHANGED <<ocall, retryVars, adapterVars, registryVars, metricsVars, facadeVars, delayVars, legacyVars, probeVars>>

\* The caller's await of a settled orchestrator call continues.
OrchestratorReturn ==
    /\ ocall.pc \in {"resolved", "rejected"}
    /\ ocall' = IdleOCall
    /\ UNCHANGED <<adapters, removedNames, retryVars, adapterVars, registryVars, metricsVars, facadeVars, delayVars, legacyVars, probeVars>>

NextOrchestrator ==
    \/ CheckAll
    \/ IsHealthy
    \/ GetAggregatedStatus
    \/ \E name \in ServiceNames : Check(name)
    \/ \E i \in 1 .. Cardinality(AdapterObjs), out \in HealthCheckOutcomes : HealthCheckSettles(i, out)
    \/ \E a \in AdapterObjs : AddAdapter(a)
    \/ \E name \in ServiceNames : RemoveAdapter(name)
    \/ OrchestratorClear
    \/ OrchestratorReturn

\* new HealthCheckOrchestrator(adapters): any array of distinct adapter objects
InitOrchestrator ==
    /\ adapters \in {arr \in UNION {[1 .. n -> AdapterObjs] : n \in 0 .. MaxAdapters} :
                        \A i, j \in DOMAIN arr : i # j => arr[i] # arr[j]}
    /\ ocall = IdleOCall
    /\ removedNames = {}

\* an orchestrator that is not used
IdleOrchestrator ==
    /\ adapters = <<>>
    /\ ocall = IdleOCall
    /\ removedNames = {}

----------------------------------------------------------------------------
(* DatabaseAdapterRegistry *)

\* Map.prototype.has / get / set / delete on the entries, kept in insertion order
MapIndex(m, key) ==
    IF \E i \in 1 .. Len(m) : m[i].name = key
    THEN CHOOSE i \in 1 .. Len(m) : m[i].name = key
    ELSE 0

MapHas(m, key) == MapIndex(m, key) # 0

MapGet(m, key) == IF MapHas(m, key) THEN m[MapIndex(m, key)].adapter ELSE "undefined"

MapSet(m, key, value) ==
    IF MapHas(m, key)
    THEN [m EXCEPT ![MapIndex(m, key)].adapter = value]
    ELSE Append(m, [name |-> key, adapter |-> value])

MapDelete(m, key) ==
    LET Keep(e) == e.name # key
    IN SelectSeq(m, Keep)

AlreadyRegisteredError(name) == <<"Database adapter is already registered", name>>
NotRegisteredError(name) == <<"Database adapter is not registered", name>>

\* mutant: a duplicate name silently replaces the registered adapter
register_Overwrite(m, a) ==
    [error |-> NoError, adapters |-> MapSet(m, NameOf(a), a)]

\* register(adapter): the error thrown, if any, and the Map afterwards
register(m, a) ==
    IF MapHas(m, NameOf(a))
    THEN [error |-> AlreadyRegisteredError(NameOf(a)), adapters |-> m]
    ELSE [error |-> NoError, adapters |-> MapSet(m, NameOf(a), a)]

\* count()
count(m) == Len(m)

NoRCall ==
    [op |-> "none", name |-> "", adapter |-> "undefined", before |-> <<>>,
     error |-> NoError, returned |-> "undefined"]

Register(a) ==
    /\ registry' = register(registry, a).adapters
    /\ rcall' = [NoRCall EXCEPT !.op = "register", !.name = NameOf(a), !.adapter = a,
                                !.before = registry, !.error = register(registry, a).error]
    /\ UNCHANGED <<retryVars, adapterVars, orchVars, metricsVars, facadeVars, delayVars, legacyVars, probeVars>>

\* get(name)
Get(name) ==
    /\ rcall' = [NoRCall EXCEPT !.op = "get", !.name = name, !.before = registry,
                                !.error = IF MapHas(registry, name) THEN NoError
                                          ELSE NotRegisteredError(name),
                                !.returned = MapGet(registry, name)]
    /\ UNCHANGED <<registry, retryVars, adapterVars, orchVars, metricsVars, facadeVars, delayVars, legacyVars, probeVars>>

\* has(name)
Has(name) ==
    /\ rcall' = [NoRCall EXCEPT !.op = "has", !.name = name, !.before = registry,
                                !.returned = IF MapHas(registry, name) THEN "true" ELSE "false"]
    /\ UNCHANGED <<registry, retryVars, adapterVars, orchVars, metricsVars, facadeVars, delayVars, legacyVars, probeVars>>

\* unregister(name)
Unregister(name) ==
    /\ registry' = MapDelete(registry, name)
    /\ rcall' = [NoRCall EXCEPT !.op = "unregister", !.name = name, !.before = registry,
                                !.returned = IF MapHas(registry, name) THEN "true" ELSE "false"]
    /\ UNCHANGED <<retryVars, adapterVars, orchVars, metricsVars, facadeVars, delayVars, legacyVars, probeVars>>

\* clear() of the registry
RegistryClear ==
    /\ registry' = <<>>
    /\ rcall' = [NoRCall EXCEPT !.op = "clear", !.before = registry]
    /\ UNCHANGED <<retryVars, adapterVars, orchVars, metricsVars, facadeVars, delayVars, legacyVars, probeVars>>

NextRegistry ==
    \/ \E a \in AdapterObjs : Register(a)
    \/ \E name \in ServiceNames : Get(name)
    \/ \E name \in ServiceNames : Has(name)
    \/ \E name \in ServiceNames : Unregister(name)
    \/ RegistryClear

\* new DatabaseAdapterRegistry()
InitRegistry ==
    /\ registry = <<>>
    /\ rcall = NoRCall

----------------------------------------------------------------------------
(* MetricsCollector *)

\* The collector's sizes and the clock, scaled down: the code's ceiling is
\* maxMetricsSize = 10000 samples and its default retention maxAge = 3600000 ms.
maxMetricsSize == 2    \* this.maxMetricsSize
maxAge == 2            \* this.maxAge (constructor parameter), in clock ticks
MaxRecorded == 3       \* samples recorded in one run
MaxTime == 3           \* last clock tick

\* Number(endTime - startTime) / 1_000_000 of the recorded queries
QueryDurations == {10, 30}

\* cleanupOldMetrics(): the first loop, shifting query samples older than maxAge
RECURSIVE ShiftOldQueries(_, _)
ShiftOldQueries(metrics, t) ==
    IF Len(metrics) = 0 THEN metrics
    ELSE IF t - Head(metrics).timestamp <= maxAge THEN metrics
    ELSE ShiftOldQueries(Tail(metrics), t)

\* cleanupOldMetrics(): the second loop, shifting connection samples older than maxAge
RECURSIVE ShiftOldConnections(_, _)
ShiftOldConnections(metrics, t) ==
    IF Len(metrics) = 0 THEN metrics
    ELSE IF t - Head(metrics).connectedAt <= maxAge THEN metrics
    ELSE ShiftOldConnections(Tail(metrics), t)

\* mutant: a sample whose age equals maxAge still counts
InWindow_Inclusive(at, t) == t - at <= maxAge

\* a (query or connection) sample is inside the retention window at time t
InWindow(at, t) == t - at < maxAge

Sum(f, S) ==
    LET RECURSIVE SumOver(_)
        SumOver(T) == IF T = {} THEN 0
                      ELSE LET x == CHOOSE y \in T : TRUE IN f[x] + SumOver(T \ {x})
    IN SumOver(S)

\* Math.max(...durations), for a non-empty list
MaxDuration(metrics) ==
    CHOOSE d \in {metrics[i].duration : i \in 1 .. Len(metrics)} :
        \A i \in 1 .. Len(metrics) : metrics[i].duration <= d

\* a quotient of two numbers, kept exact; 0 / 0 is NaN
Quotient(num, den) == [num |-> num, den |-> den]
Zero == Quotient(0, 1)
NaN == Quotient(0, 0)

\* mutant: the average is computed without the guard for an empty list
averageDuration_Unguarded(validQueries) ==
    Quotient(Sum([i \in 1 .. Len(validQueries) |-> validQueries[i].duration],
                 1 .. Len(validQueries)),
             Len(validQueries))

\* getSnapshot(): avgDuration
averageDuration(validQueries) ==
    IF Len(validQueries) > 0
    THEN Quotient(Sum([i \in 1 .. Len(validQueries) |-> validQueries[i].duration],
                      1 .. Len(validQueries)),
                  Len(validQueries))
    ELSE Zero

\* getSnapshot(): slowestDuration
slowestDuration(validQueries) ==
    IF Len(validQueries) > 0 THEN MaxDuration(validQueries) ELSE 0

\* getSnapshot() at time t
getSnapshot(queries, connections, t) ==
    LET ValidQuery(m) == InWindow(m.timestamp, t)
        ValidConnection(m) == InWindow(m.connectedAt, t)
        Successful(m) == m.success
        Failed(m) == ~m.success
        Active(m) == m.disconnectedAt = Undefined
        validQueries == SelectSeq(queries, ValidQuery)
        validConnections == SelectSeq(connections, ValidConnection)
    IN [queries |->
          [total |-> Len(validQueries),
           successful |-> Len(SelectSeq(validQueries, Successful)),
           failed |-> Len(SelectSeq(validQueries, Failed)),
           averageDuration |-> averageDuration(validQueries),
           slowestDuration |-> slowestDuration(validQueries)],
        connections |->
          [active |-> Len(SelectSeq(validConnections, Active)),
           totalAttempts |-> Len(validConnections),
           successfulConnections |-> Len(SelectSeq(validConnections, Successful)),
           failedConnections |-> Len(SelectSeq(validConnections, Failed))]]

NoSnapshot == getSnapshot(<<>>, <<>>, 0)

NoMCall ==
    [op |-> "none", id |-> 0, index |-> Undefined, before |-> <<>>, snapshot |-> NoSnapshot]

\* recordQuery(operation, startTime, endTime, success)
RecordQuery(success, duration) ==
    /\ recorded < MaxRecorded
    /\ LET metric == [id |-> recorded + 1, duration |-> duration, success |-> success,
                      timestamp |-> now]
           pushed == Append(queryMetrics, metric)
       IN IF Len(pushed) > maxMetricsSize
          THEN /\ queryMetrics' = ShiftOldQueries(pushed, now)
               /\ connectionMetrics' = ShiftOldConnections(connectionMetrics, now)
          ELSE /\ queryMetrics' = pushed
               /\ UNCHANGED connectionMetrics
    /\ recorded' = recorded + 1
    /\ mcall' = [NoMCall EXCEPT !.op = "recordQuery"]
    /\ UNCHANGED <<now, issued, retryVars, adapterVars, orchVars, registryVars, facadeVars, delayVars, legacyVars, probeVars>>

\* recordConnection(adapter, success)
RecordConnection(success) ==
    /\ recorded < MaxRecorded
    /\ connectionMetrics' =
          Append(connectionMetrics,
                 [id |-> recorded + 1, connectedAt |-> now, success |-> success,
                  disconnectedAt |-> Undefined, duration |-> Undefined])
    /\ recorded' = recorded + 1
    /\ issued' = issued \cup {[id |-> recorded + 1, index |-> Len(connectionMetrics') - 1]}
    /\ mcall' = [NoMCall EXCEPT !.op = "recordConnection", !.id = recorded + 1,
                                !.index = Len(connectionMetrics') - 1]
    /\ UNCHANGED <<queryMetrics, now, retryVars, adapterVars, orchVars, registryVars, facadeVars, delayVars, legacyVars, probeVars>>

\* recordDisconnection(metricIndex): the sample at that position, if any, gets
\* disconnectedAt and duration
DisconnectAt(metrics, metricIndex, t) ==
    IF metricIndex >= 0 /\ metricIndex < Len(metrics)
    THEN [metrics EXCEPT ![metricIndex + 1].disconnectedAt = t,
                         ![metricIndex + 1].duration = t - metrics[metricIndex + 1].connectedAt]
    ELSE metrics

\* the values recordConnection can return, each with the sample it was returned for
ConnectionHandles == [id : 1 .. MaxRecorded, index : 0 .. MaxRecorded - 1]

\* recordDisconnection(handle), for a handle that recordConnection returned
RecordDisconnection(h) ==
    /\ h \in issued
    /\ connectionMetrics' = DisconnectAt(connectionMetrics, h.index, now)
    /\ mcall' = [NoMCall EXCEPT !.op = "recordDisconnection", !.id = h.id,
                                !.index = h.index, !.before = connectionMetrics]
    /\ UNCHANGED <<queryMetrics, now, recorded, issued, retryVars, adapterVars, orchVars,
                   registryVars, facadeVars, delayVars, legacyVars, probeVars>>

\* getSnapshot()
GetSnapshot ==
    /\ mcall' = [NoMCall EXCEPT !.op = "getSnapshot",
                                !.snapshot = getSnapshot(queryMetrics, connectionMetrics, now)]
    /\ UNCHANGED <<queryMetrics, connectionMetrics, now, recorded, issued, retryVars,
                   adapterVars, orchVars, registryVars, facadeVars, delayVars, legacyVars, probeVars>>

\* clear() of the collector
MetricsClear ==
    /\ queryMetrics' = <<>>
    /\ connectionMetrics' = <<>>
    /\ mcall' = [NoMCall EXCEPT !.op = "clear"]
    /\ UNCHANGED <<now, recorded, issued, retryVars, adapterVars, orchVars, registryVars, facadeVars, delayVars, legacyVars, probeVars>>

\* Time passes.
Tick ==
    /\ now < MaxTime
    /\ now' = now + 1
    /\ UNCHANGED <<queryMetrics, connectionMetrics, recorded, issued, mcall, retryVars,
                   adapterVars, orchVars, registryVars, facadeVars, delayVars, legacyVars, probeVars>>

NextMetrics ==
    \/ \E success \in BOOLEAN, duration \in QueryDurations : RecordQuery(success, duration)
    \/ \E success \in BOOLEAN : RecordConnection(success)
    \/ \E h \in ConnectionHandles : RecordDisconnection(h)
    \/ GetSnapshot
    \/ MetricsClear
    \/ Tick

\* new MetricsCollector(maxAge)
InitMetrics ==
    /\ queryMetrics = <<>>
    /\ connectionMetrics = <<>>
    /\ now = 0
    /\ recorded = 0
    /\ issued = {}
    /\ mcall = NoMCall

----------------------------------------------------------------------------
(* Connection lifecycle facade: initializeDatabase / getDatabase /             *)
(* disconnectDatabase and the shutdown signal handlers, in its two versions:   *)
(* "adapterFacade" (legacy/client.ts, over PostgresAdapter) and "prismaFacade" *)
(* (the client module that holds the PrismaClient itself).                     *)

MaxInits == 2          \* instances the facade creates in one run

FacadeVariants == {"adapterFacade", "prismaFacade"}
FacadeUsers == {"u1", "u2"}
Signals == {"SIGINT", "SIGTERM"}
FacadeCallers == FacadeUsers \cup Signals

FacadeNotInitialized == <<"database/not_initialized">>
FacadeConnectionFailed == <<"database/connection_failed">>
FacadeConfigInvalid == <<"database configuration invalid">>
FacadeTypeError == <<"TypeError: postgresAdapter is null">>

\* an instance that was never created
NoInstance ==
    [status |-> "none", urlOk |-> FALSE, hasClient |-> FALSE, closes |-> 0, signalCloses |-> 0]

NoFacadeResult == [kind |-> "none", id |-> Null, error |-> NoError]
FacadeHandle(id) == [kind |-> "handle", id |-> id, error |-> NoError]
FacadeError(e) == [kind |-> "error", id |-> Null, error |-> e]
FacadeVoid == [kind |-> "void", id |-> Null, error |-> NoError]
\* new PrismaClient() built for the return value only
FreshClient == [kind |-> "fresh", id |-> Null, error |-> NoError]

IdleFCall ==
    [op |-> "none", pc |-> "idle", inst |-> Null, graceful |-> FALSE, by |-> "none",
     started |-> FALSE, result |-> NoFacadeResult,
     pre |-> [instance |-> Null, initialized |-> FALSE]]

\* the facade holds an instance whose handshake has succeeded
Initialized == facade.instance # Null /\ finst[facade.instance].status = "connected"

NewFCall(op) ==
    [IdleFCall EXCEPT !.op = op,
                      !.pre = [instance |-> facade.instance, initialized |-> Initialized]]

\* postgresAdapter.getClient() / the prismaInstance itself, for the held instance
InstanceClient(f, insts) ==
    IF f.variant = "adapterFacade" /\ ~insts[f.instance].hasClient
    THEN FacadeError(FacadeNotInitialized)
    ELSE FacadeHandle(f.instance)

\* getDatabase()
getDatabase(f, insts) ==
    IF f.instance = Null THEN FacadeError(FacadeNotInitialized)
    ELSE InstanceClient(f, insts)

\* mutant: initializeDatabase() without its guard
AlreadyInitialized_Never(f) == FALSE

\* initializeDatabase(): if (postgresAdapter) / if (prismaInstance)
AlreadyInitialized(f) == f.instance # Null

\* mutant: the handlers are registered on every successful initialization
registerShutdownHandlers_Always(f) ==
    [f EXCEPT !.isShutdownRegistered = TRUE, !.registrations = @ + 1]

\* registerShutdownHandlers(config)
registerShutdownHandlers(f) ==
    IF f.isShutdownRegistered THEN f
    ELSE [f EXCEPT !.isShutdownRegistered = TRUE, !.registrations = @ + 1]

\* mutant: handleSignal without its reentrancy guard
ShutdownInProgress_Never(f) == FALSE

\* handleSignal: if (isShuttingDown) return
ShutdownInProgress(f) == f.isShuttingDown

\* disconnectDatabase(options), called by a user or by handleSignal, with the module
\* variables f: up to the await of the (timed) disconnect
StartDisconnect(c, op, graceful, f) ==
    LET r == [NewFCall(op) EXCEPT !.graceful = graceful]
        id == f.instance
    IN IF id = Null
       THEN /\ fcall' = [fcall EXCEPT ![c] = [r EXCEPT !.pc = "resolved", !.result = FacadeVoid]]
            /\ facade' = f
            /\ UNCHANGED finst
       ELSE IF f.variant = "adapterFacade" /\ ~finst[id].hasClient
       THEN \* adapter.disconnect() finds no client and makes no close call
            /\ fcall' = [fcall EXCEPT ![c] = [r EXCEPT !.pc = "resolved", !.inst = id,
                                                       !.result = FacadeVoid]]
            /\ facade' = [f EXCEPT !.instance = Null]
            /\ UNCHANGED finst
       ELSE /\ fcall' = [fcall EXCEPT ![c] = [r EXCEPT !.pc = "disconnecting", !.inst = id]]
            /\ facade' = f
            /\ finst' = [finst EXCEPT ![id].closes = @ + 1,
                                      ![id].signalCloses = IF c \in Signals THEN @ + 1 ELSE @]

\* initializeDatabase(config): up to the await of the connect
InitializeDatabase(u) ==
    /\ fcall[u].pc = "idle"
    /\ IF AlreadyInitialized(facade)
       THEN LET res == InstanceClient(facade, finst)
            IN /\ fcall' = [fcall EXCEPT ![u] =
                              [NewFCall("initializeDatabase") EXCEPT
                                 !.pc = IF res.kind = "error" THEN "rejected" ELSE "resolved",
                                 !.result = res]]
               /\ UNCHANGED <<facade, finst>>
       ELSE /\ facade.created < MaxInits
            /\ \E urlOk \in BOOLEAN :
                 IF facade.variant = "prismaFacade" /\ ~urlOk
                 THEN \* validateDatabaseConfig throws before the client is created
                      /\ fcall' = [fcall EXCEPT ![u] =
                                     [NewFCall("initializeDatabase") EXCEPT
                                        !.pc = "rejected",
                                        !.result = FacadeError(FacadeConfigInvalid)]]
                      /\ UNCHANGED <<facade, finst>>
                 ELSE LET id == facade.created + 1
                      IN /\ facade' = [facade EXCEPT !.instance = id, !.created = id]
                         /\ finst' = [finst EXCEPT ![id] =
                                        [NoInstance EXCEPT !.status = "connecting",
                                                           !.urlOk = urlOk,
                                                           !.hasClient = urlOk]]
                         /\ fcall' = [fcall EXCEPT ![u] =
                                        [NewFCall("initializeDatabase") EXCEPT
                                           !.pc = "connecting", !.inst = id,
                                           !.started = TRUE]]
    /\ UNCHANGED <<ignoredSignals, retryVars, adapterVars, orchVars, registryVars, metricsVars, delayVars, legacyVars, probeVars>>

\* The connect of an initializeDatabase() succeeds: the handlers are registered and
\* the held instance's client is returned.
ConnectResolves(u) ==
    /\ fcall[u].pc = "connecting"
    /\ finst[fcall[u].inst].urlOk
    /\ finst' = [finst EXCEPT ![fcall[u].inst].status = "connected"]
    /\ LET f2 == registerShutdownHandlers(facade)
           res == IF f2.instance = Null
                  THEN (IF f2.variant = "adapterFacade" THEN FacadeError(FacadeTypeError)
                        ELSE FreshClient)
                  ELSE InstanceClient(f2, finst')
       IN IF res.kind = "error"
          THEN \* the catch block of initializeDatabase
               /\ facade' = [f2 EXCEPT !.instance = Null]
               /\ fcall' = [fcall EXCEPT ![u] = [@ EXCEPT !.pc = "rejected", !.result = res,
                                                          !.by = "returnThrew"]]
          ELSE /\ facade' = f2
               /\ fcall' = [fcall EXCEPT ![u] = [@ EXCEPT !.pc = "resolved", !.result = res,
                                                          !.by = "connectResolved"]]
    /\ UNCHANGED <<ignoredSignals, retryVars, adapterVars, orchVars, registryVars, metricsVars, delayVars, legacyVars, probeVars>>

\* The connect of an initializeDatabase() fails after its retries.
ConnectRejects(u) ==
    /\ fcall[u].pc = "connecting"
    /\ finst' = [finst EXCEPT ![fcall[u].inst].status = "failed"]
    /\ facade' = IF facade.variant = "adapterFacade"
                 THEN [facade EXCEPT !.instance = Null]
                 ELSE facade
    /\ fcall' = [fcall EXCEPT ![u] = [@ EXCEPT !.pc = "rejected", !.by = "connectRejected",
                                               !.result = FacadeError(FacadeConnectionFailed)]]
    /\ UNCHANGED <<ignoredSignals, retryVars, adapterVars, orchVars, registryVars, metricsVars, delayVars, legacyVars, probeVars>>

\* getDatabase()
GetDatabase(u) ==
    /\ fcall[u].pc = "idle"
    /\ LET res == getDatabase(facade, finst)
       IN fcall' = [fcall EXCEPT ![u] =
                      [NewFCall("getDatabase") EXCEPT
                         !.pc = IF res.kind = "error" THEN "rejected" ELSE "resolved",
                         !.result = res]]
    /\ UNCHANGED <<facade, finst, ignoredSignals, retryVars, adapterVars, orchVars, registryVars,
                   metricsVars, delayVars, legacyVars, probeVars>>

\* disconnectDatabase(options) called by a user
DisconnectDatabase(u, graceful) ==
    /\ fcall[u].pc = "idle"
    /\ StartDisconnect(u, "disconnectDatabase", graceful, facade)
    /\ UNCHANGED <<ignoredSignals, retryVars, adapterVars, orchVars, registryVars, metricsVars, delayVars, legacyVars, probeVars>>

\* A SIGINT / SIGTERM is delivered to the registered handleSignal.
HandleSignal(sig) ==
    /\ facade.isShutdownRegistered
    /\ IF ShutdownInProgress(facade)
       THEN /\ ignoredSignals' = ignoredSignals \cup {sig}
            /\ UNCHANGED <<facade, finst, fcall>>
       ELSE /\ fcall[sig].pc = "idle"
            /\ StartDisconnect(sig, "handleSignal", TRUE,
                               [facade EXCEPT !.isShuttingDown = TRUE])
            /\ UNCHANGED ignoredSignals
    /\ UNCHANGED <<retryVars, adapterVars, orchVars, registryVars, metricsVars, delayVars, legacyVars, probeVars>>

\* the continuation of disconnectDatabase() after its await, settled by `by`
AfterDisconnect(r, by) == [r EXCEPT !.pc = "resolved", !.by = by, !.result = FacadeVoid]

\* The underlying disconnect resolves.
DisconnectResolves(c) ==
    /\ fcall[c].pc = "disconnecting"
    /\ finst' = [finst EXCEPT ![fcall[c].inst].hasClient =
                     IF facade.variant = "adapterFacade" THEN FALSE ELSE @]
    /\ facade' = [facade EXCEPT !.instance = Null]
    /\ fcall' = [fcall EXCEPT ![c] = AfterDisconnect(@, "disconnectResolved")]
    /\ UNCHANGED <<ignoredSignals, retryVars, adapterVars, orchVars, registryVars, metricsVars, delayVars, legacyVars, probeVars>>

\* The underlying close fails: swallowed by adapter.disconnect() or caught by
\* disconnectDatabase().
DisconnectFails(c) ==
    /\ fcall[c].pc = "disconnecting"
    /\ facade' = [facade EXCEPT !.instance = Null]
    /\ fcall' = [fcall EXCEPT ![c] = AfterDisconnect(@, "disconnectFailed")]
    /\ UNCHANGED <<finst, ignoredSignals, retryVars, adapterVars, orchVars, registryVars,
                   metricsVars, delayVars, legacyVars, probeVars>>

\* mutant: the timeout is rethrown to the caller
DisconnectTimedOut_Rethrow(r) ==
    [r EXCEPT !.pc = "rejected", !.by = "timer",
              !.result = FacadeError(<<"Database disconnect timeout">>)]

\* disconnectDatabase(): the timeout rejection is caught and logged
DisconnectTimedOut(r) == AfterDisconnect(r, "timer")

\* The timer of a graceful disconnect fires before the disconnect settles.
DisconnectTimerFires(c) ==
    /\ fcall[c].pc = "disconnecting"
    /\ fcall[c].graceful
    /\ facade' = [facade EXCEPT !.instance = Null]
    /\ fcall' = [fcall EXCEPT ![c] = DisconnectTimedOut(@)]
    /\ UNCHANGED <<finst, ignoredSignals, retryVars, adapterVars, orchVars, registryVars,
                   metricsVars, delayVars, legacyVars, probeVars>>

\* The caller's await of a settled facade call continues.
FacadeReturn(c) ==
    /\ fcall[c].pc \in {"resolved", "rejected"}
    /\ fcall' = [fcall EXCEPT ![c] = IdleFCall]
    /\ UNCHANGED <<facade, finst, ignoredSignals, retryVars, adapterVars, orchVars, registryVars,
                   metricsVars, delayVars, legacyVars, probeVars>>

\* Calls by one user that may overlap with the signal handlers.
OneUser == {"u1"}

NextFacade ==
    \/ \E u \in OneUser : InitializeDatabase(u)
    \/ \E u \in OneUser : ConnectResolves(u)
    \/ \E u \in OneUser : ConnectRejects(u)
    \/ \E u \in OneUser : GetDatabase(u)
    \/ \E u \in OneUser, graceful \in BOOLEAN : DisconnectDatabase(u, graceful)
    \/ \E sig \in Signals : HandleSignal(sig)
    \/ \E c \in OneUser \cup Signals : DisconnectResolves(c)
    \/ \E c \in OneUser \cup Signals : DisconnectFails(c)
    \/ \E c \in OneUser \cup Signals : DisconnectTimerFires(c)
    \/ \E c \in OneUser \cup Signals : FacadeReturn(c)

\* Calls by two users of the module that may overlap, without signals.
NextFacadeUsers ==
    \/ \E u \in FacadeUsers : InitializeDatabase(u)
    \/ \E u \in FacadeUsers : ConnectResolves(u)
    \/ \E u \in FacadeUsers : ConnectRejects(u)
    \/ \E u \in FacadeUsers : GetDatabase(u)
    \/ \E u \in FacadeUsers, graceful \in BOOLEAN : DisconnectDatabase(u, graceful)
    \/ \E u \in FacadeUsers : DisconnectResolves(u)
    \/ \E u \in FacadeUsers : DisconnectFails(u)
    \/ \E u \in FacadeUsers : DisconnectTimerFires(u)
    \/ \E u \in FacadeUsers : FacadeReturn(u)

\* the module as loaded
IdleFacade ==
    /\ facade = [variant |-> "adapterFacade", instance |-> Null,
                 isShutdownRegistered |-> FALSE, isShuttingDown |-> FALSE,
                 registrations |-> 0, created |-> 0]
    /\ finst = [id \in 1 .. MaxInits |-> NoInstance]
    /\ fcall = [c \in FacadeCallers |-> IdleFCall]
    /\ ignoredSignals = {}

InitFacade ==
    /\ facade \in [variant : FacadeVariants, instance : {Null},
                    isShutdownRegistered : {FALSE}, isShuttingDown : {FALSE},
                    registrations : {0}, created : {0}]
    /\ finst = [id \in 1 .. MaxInits |-> NoInstance]
    /\ fcall = [c \in FacadeCallers |-> IdleFCall]
    /\ ignoredSignals = {}

----------------------------------------------------------------------------
(* Backoff strategies as objects: construction and delay calculation *)

MaxAttempt == 10       \* attempts 0 .. MaxAttempt are calculated
FactorSteps == 10      \* a jitterFactor is a multiple of 1 / FactorSteps
RandomSteps == 3       \* Math.random() is a multiple of 1 / RandomSteps, below 1

\* jitterFactor arguments, in units of 1 / FactorSteps: from below 0 to above 1.
JitterFactorInputs == (0 - 2) .. (FactorSteps + 5)
DefaultJitterFactor == FactorSteps \div 10
Randoms == 0 .. (RandomSteps - 1)
Attempts == 0 .. MaxAttempt
DelayInputs == {100, 1000}
DelayStrategies == {"exponential", "linear"}

\* Delays are rationals: a numerator over a denominator.
Whole(n) == [num |-> n, den |-> 1]
DelayDen == FactorSteps * RandomSteps

JitterFactorError == <<"Jitter factor must be between 0 and 1">>

JitterFactorInvalid_OnlyNegative(jitterFactor) == jitterFactor < 0

\* the constructor's validation
JitterFactorInvalid(jitterFactor) == jitterFactor < 0 \/ jitterFactor > FactorSteps

NoJitter == [state |-> "none", input |-> 0, jitterFactor |-> 0, error |-> NoError]

\* new ExponentialBackoffWithJitterStrategy(jitterFactor)
NewJitter(jitterFactor) ==
    IF JitterFactorInvalid(jitterFactor)
    THEN [state |-> "threw", input |-> jitterFactor, jitterFactor |-> 0,
          error |-> JitterFactorError]
    ELSE [state |-> "constructed", input |-> jitterFactor, jitterFactor |-> jitterFactor,
          error |-> NoError]

JitterCalculateDelay_IgnoreFactor(attempt, baseDelay, jitterFactor, random) ==
    [num |-> (baseDelay * Pow2(attempt)) * DelayDen
             + random * (baseDelay * Pow2(attempt)) * FactorSteps,
     den |-> DelayDen]

\* exponentialDelay + Math.random() * exponentialDelay * jitterFactor, with
\* Math.random() = random / RandomSteps and the factor jitterFactor / FactorSteps
JitterCalculateDelay(attempt, baseDelay, jitterFactor, random) ==
    [num |-> (baseDelay * Pow2(attempt)) * DelayDen
             + random * (baseDelay * Pow2(attempt)) * jitterFactor,
     den |-> DelayDen]

NoDCall == [strategy |-> "none", attempt |-> 0, baseDelay |-> 0, jitterFactor |-> 0,
            random |-> 0, result |-> Whole(0)]

ConstructJitter(jitterFactor) ==
    /\ jitter' = NewJitter(jitterFactor)
    /\ UNCHANGED <<dcall, retryVars, adapterVars, orchVars, registryVars, metricsVars,
                   facadeVars, legacyVars, probeVars>>

ConstructJitterDefault ==
    /\ jitter' = NewJitter(DefaultJitterFactor)
    /\ UNCHANGED <<dcall, retryVars, adapterVars, orchVars, registryVars, metricsVars,
                   facadeVars, legacyVars, probeVars>>

CalculateDelay(s, attempt, baseDelay) ==
    /\ dcall' = [NoDCall EXCEPT !.strategy = s, !.attempt = attempt,
                                !.baseDelay = baseDelay,
                                !.result = Whole(calculateDelay(s, attempt, baseDelay))]
    /\ UNCHANGED <<jitter, retryVars, adapterVars, orchVars, registryVars, metricsVars,
                   facadeVars, legacyVars, probeVars>>

\* calculateDelay on a constructed jitter strategy
JitterCalculate(attempt, baseDelay, random) ==
    /\ jitter.state = "constructed"
    /\ dcall' = [strategy |-> "jitter", attempt |-> attempt, baseDelay |-> baseDelay,
                 jitterFactor |-> jitter.jitterFactor, random |-> random,
                 result |-> JitterCalculateDelay(attempt, baseDelay, jitter.jitterFactor,
                                                 random)]
    /\ UNCHANGED <<jitter, retryVars, adapterVars, orchVars, registryVars, metricsVars,
                   facadeVars, legacyVars, probeVars>>

NextDelay ==
    \/ \E f \in JitterFactorInputs : ConstructJitter(f)
    \/ ConstructJitterDefault
    \/ \E s \in DelayStrategies, a \in Attempts, d \in DelayInputs : CalculateDelay(s, a, d)
    \/ \E a \in Attempts, d \in DelayInputs, r \in Randoms : JitterCalculate(a, d, r)

IdleDelay ==
    /\ jitter = NoJitter
    /\ dcall = NoDCall

----------------------------------------------------------------------------
(* Legacy retryWithBackoff, run beside RetryCoordinator.execute on one operation *)

LegacyDefaultRetries == 3
LegacyDefaultDelay == 500

\* the run beside which the legacy function runs
PairedExec == "e1"
MaxPatternLen == MaxRetriesOpt + 2
\* outcome of the k-th invocation of the operation: TRUE when it fails
FailurePatterns == [1 .. MaxPatternLen -> BOOLEAN]
Fails(pattern, k) == IF k \in DOMAIN pattern THEN pattern[k] ELSE TRUE

IdleLegacyRun ==
    [pc |-> "idle", retries |-> 0, delay |-> 0, hook |-> "none", attempt |-> 0,
     calls |-> 0, hookCalls |-> <<>>, delays |-> <<>>, lastError |-> NoError,
     error |-> NoError]

NoLegacy == [run |-> IdleLegacyRun, pattern |-> <<>>, explicit |-> FALSE]

\* retryWithBackoff(): option defaults, attempt = 0, the loop test and the first
\* operation() call
LegacyBegin(retriesOpt, delayOpt, hook) ==
    LET retries == IF retriesOpt = Undefined THEN LegacyDefaultRetries ELSE retriesOpt
    IN [IdleLegacyRun EXCEPT
          !.pc = IF 0 <= retries THEN "awaitOp" ELSE "rejected",
          !.retries = retries,
          !.delay = IF delayOpt = Undefined THEN LegacyDefaultDelay ELSE delayOpt,
          !.hook = hook,
          !.calls = IF 0 <= retries THEN 1 ELSE 0]

\* mutant: the loop gives up one attempt early
LegacyCatch_BreakEarly(l, err) ==
    IF l.attempt + 1 >= l.retries
    THEN [l EXCEPT !.pc = "rejected", !.lastError = err, !.error = err]
    ELSE IF l.hook = "throws"
    THEN [l EXCEPT !.pc = "rejected", !.lastError = err, !.error = HookError,
                   !.hookCalls = Append(@, l.attempt + 1)]
    ELSE [l EXCEPT !.pc = "sleep", !.lastError = err,
                   !.hookCalls = IF l.hook = "none" THEN @ ELSE Append(@, l.attempt + 1),
                   !.delays = Append(@, l.delay * Pow2(l.attempt))]

\* retryWithBackoff(): the catch block, up to the setTimeout sleep
LegacyCatch(l, err) ==
    IF l.attempt = l.retries
    THEN [l EXCEPT !.pc = "rejected", !.lastError = err, !.error = err]
    ELSE IF l.hook = "throws"
    THEN [l EXCEPT !.pc = "rejected", !.lastError = err, !.error = HookError,
                   !.hookCalls = Append(@, l.attempt + 1)]
    ELSE [l EXCEPT !.pc = "sleep", !.lastError = err,
                   !.hookCalls = IF l.hook = "none" THEN @ ELSE Append(@, l.attempt + 1),
                   !.delays = Append(@, l.delay * Pow2(l.attempt))]

\* retryWithBackoff(): after the sleep, attempt++, the loop test, and the next
\* operation() call or throw lastError
LegacyWake(l) ==
    IF l.attempt + 1 <= l.retries
    THEN [l EXCEPT !.pc = "awaitOp", !.attempt = @ + 1, !.calls = @ + 1]
    ELSE [l EXCEPT !.pc = "rejected", !.attempt = @ + 1, !.error = l.lastError]

\* retryWithBackoff(): return await operation()
LegacyReturn(l) == [l EXCEPT !.pc = "resolved"]

\* The same operation and options are given to retryWithBackoff and to
\* coordinator.execute.
StartBoth(retriesOpt, delayOpt, hook, pattern) ==
    /\ legacy.run.pc = "idle"
    /\ exec[PairedExec].pc = "idle"
    /\ legacy' = [run |-> LegacyBegin(retriesOpt, delayOpt, hook), pattern |-> pattern,
                  explicit |-> retriesOpt # Undefined /\ delayOpt # Undefined]
    /\ exec' = [exec EXCEPT ![PairedExec] = ExecBegin(retriesOpt, delayOpt, hook)]
    /\ UNCHANGED <<strategy, adapterVars, orchVars, registryVars, metricsVars, facadeVars,
                   delayVars, probeVars>>

\* The operation awaited by retryWithBackoff settles as the pattern says.
LegacyOperationSettles ==
    /\ legacy.run.pc = "awaitOp"
    /\ legacy' = [legacy EXCEPT !.run =
                     IF Fails(legacy.pattern, @.calls)
                     THEN LegacyCatch(@, OpError(@.calls))
                     ELSE LegacyReturn(@)]
    /\ UNCHANGED <<retryVars, adapterVars, orchVars, registryVars, metricsVars, facadeVars,
                   delayVars, probeVars>>

\* The setTimeout of retryWithBackoff fires.
LegacySleepEnds ==
    /\ legacy.run.pc = "sleep"
    /\ legacy' = [legacy EXCEPT !.run = LegacyWake(@)]
    /\ UNCHANGED <<retryVars, adapterVars, orchVars, registryVars, metricsVars, facadeVars,
                   delayVars, probeVars>>

\* The operation awaited by execute() settles as the pattern says.
PairedOperationSettles ==
    /\ legacy.run.pc # "idle"
    /\ exec[PairedExec].pc = "awaitOp"
    /\ exec' = [exec EXCEPT ![PairedExec] =
                   IF Fails(legacy.pattern, @.calls)
                   THEN ExecCatch(strategy, @, OpError(@.calls))
                   ELSE ExecReturn(@)]
    /\ UNCHANGED <<strategy, legacy, adapterVars, orchVars, registryVars, metricsVars,
                   facadeVars, delayVars, probeVars>>

\* The backoff sleep of execute() ends.
PairedSleepEnds ==
    /\ legacy.run.pc # "idle"
    /\ exec[PairedExec].pc = "sleep"
    /\ exec' = [exec EXCEPT ![PairedExec] = ExecWake(@)]
    /\ UNCHANGED <<strategy, legacy, adapterVars, orchVars, registryVars, metricsVars,
                   facadeVars, delayVars, probeVars>>

NextLegacy ==
    \/ \E r \in MaxRetriesOpts, d \in BaseDelays, h \in Hooks, p \in FailurePatterns :
          StartBoth(r, d, h, p)
    \/ LegacyOperationSettles
    \/ LegacySleepEnds
    \/ PairedOperationSettles
    \/ PairedSleepEnds

IdleLegacy == legacy = NoLegacy

----------------------------------------------------------------------------
(* Health-check probes that lost the race to the timer and settle later *)

\* mutant: a late probe result settles the check the caller has in flight
LateProbe_SettlesCurrent(r, succeeded) ==
    IF r.op = "healthCheck" /\ r.pc = "probing"
    THEN (IF succeeded THEN CheckPassed(r) ELSE CheckFailed(r, "probeRejected", ProbeError))
    ELSE r

\* Promise.race of a check() that already returned: a later settlement of the probe
\* is ignored; r is the call the caller has now
LateProbe(r, succeeded) == r

\* The timer fires before the probe settles; the probe stays outstanding.
TimerFiresFirst(c) ==
    /\ call[c].pc = "probing"
    /\ call' = [call EXCEPT ![c] = CheckTimedOut(@)]
    /\ abandoned' = abandoned \cup {c}
    /\ UNCHANGED <<adapterName, adapterStrategy, config, client, healthCheckProvider,
                   lifecycle, retryVars, orchVars, registryVars, metricsVars, facadeVars,
                   delayVars, legacyVars>>

\* The probe of a check that timed out settles afterwards.
LateProbeSettles(c, succeeded) ==
    /\ c \in abandoned
    /\ abandoned' = abandoned \ {c}
    /\ call' = [call EXCEPT ![c] = LateProbe(@, succeeded)]
    /\ UNCHANGED <<adapterName, adapterStrategy, config, client, healthCheckProvider,
                   lifecycle, retryVars, orchVars, registryVars, metricsVars, facadeVars,
                   delayVars, legacyVars>>

\* One adapter and one sequential caller, with the probes of timed-out checks.
NextProbe ==
    \/ \E c \in SeqCallers : Connect(c)
    \/ \E c \in SeqCallers : HandshakeResolves(c)
    \/ \E c \in SeqCallers : HandshakeRejects(c)
    \/ \E c \in SeqCallers : BackoffEnds(c)
    \/ \E c \in SeqCallers : Disconnect(c)
    \/ \E c \in SeqCallers : CloseResolves(c)
    \/ \E c \in SeqCallers : CloseRejects(c)
    \/ \E c \in SeqCallers : HealthCheck(c)
    \/ \E c \in SeqCallers : ProbeResolves(c)
    \/ \E c \in SeqCallers : ProbeRejects(c)
    \/ \E c \in SeqCallers : TimerFiresFirst(c)
    \/ \E c \in SeqCallers, succeeded \in BOOLEAN : LateProbeSettles(c, succeeded)
    \/ \E c \in SeqCallers : Return(c)

IdleProbes == abandoned = {}

----------------------------------------------------------------------------
(* Specifications *)

\* In the adapter specifications the stand-alone coordinator is not used, and in
\* SpecRetry the adapter is not: the unused part keeps one initial value.
InitRetryOnly ==
    /\ InitRetry
    /\ adapterName = "postgres"
    /\ adapterStrategy = "default"
    /\ config = [maxRetries |-> Undefined, retryDelay |-> Undefined, urlOk |-> TRUE,
                 timeoutMs |-> Undefined]
    /\ client = Null
    /\ healthCheckProvider = NoHelper
    /\ call = [c \in Callers |-> IdleCall]
    /\ lifecycle = "none"
    /\ IdleOrchestrator
    /\ InitRegistry
    /\ InitMetrics
    /\ IdleFacade /\ IdleDelay /\ IdleLegacy /\ IdleProbes

\* a coordinator and an adapter that are not used
IdleResilience ==
    /\ exec = [x \in Execs |-> IdleExec]
    /\ strategy = "exponential"
    /\ adapterName = "postgres"
    /\ adapterStrategy = "default"
    /\ config = [maxRetries |-> Undefined, retryDelay |-> Undefined, urlOk |-> TRUE,
                 timeoutMs |-> Undefined]
    /\ client = Null
    /\ healthCheckProvider = NoHelper
    /\ call = [c \in Callers |-> IdleCall]
    /\ lifecycle = "none"

Init ==
    /\ InitAdapter
    /\ exec = [x \in Execs |-> IdleExec]
    /\ strategy = "exponential"
    /\ IdleOrchestrator
    /\ InitRegistry
    /\ InitMetrics
    /\ IdleFacade /\ IdleDelay /\ IdleLegacy /\ IdleProbes

\* One adapter and two concurrent callers.
Spec == Init /\ [][Next]_vars

\* One adapter and one sequential caller. setTimeout callbacks run: the armed timer
\* of a health check eventually fires.
SeqSpec == Init /\ [][NextSeq]_vars /\ \A c \in SeqCallers : WF_vars(TimerFires(c))

\* The retry coordinator and its callers.
SpecRetry == InitRetryOnly /\ [][NextRetry]_vars

InitOrchestratorOnly == IdleResilience /\ InitOrchestrator /\ InitRegistry /\ InitMetrics /\ IdleFacade /\ IdleDelay /\ IdleLegacy /\ IdleProbes

\* One orchestrator: one call in progress at a time, the held adapters changing
\* meanwhile.
SpecOrchestrator == InitOrchestratorOnly /\ [][NextOrchestrator]_vars

InitRegistryOnly == IdleResilience /\ IdleOrchestrator /\ InitRegistry /\ InitMetrics /\ IdleFacade /\ IdleDelay /\ IdleLegacy /\ IdleProbes

\* One registry.
SpecRegistry == InitRegistryOnly /\ [][NextRegistry]_vars

InitMetricsOnly == IdleResilience /\ IdleOrchestrator /\ InitRegistry /\ InitMetrics /\ IdleFacade /\ IdleDelay /\ IdleLegacy /\ IdleProbes

\* One metrics collector.
SpecMetrics == InitMetricsOnly /\ [][NextMetrics]_vars

InitFacadeOnly ==
    IdleResilience /\ IdleOrchestrator /\ InitRegistry /\ InitMetrics /\ InitFacade /\ IdleDelay /\ IdleLegacy /\ IdleProbes

\* One process with the facade module: one user and the two shutdown signals.
\* setTimeout callbacks run: the armed timer of a graceful disconnect eventually
\* fires.
SpecFacade ==
    /\ InitFacadeOnly
    /\ [][NextFacade]_vars
    /\ \A c \in FacadeCallers : WF_vars(DisconnectTimerFires(c))

InitDelayOnly ==
    IdleResilience /\ IdleOrchestrator /\ InitRegistry /\ InitMetrics /\ IdleFacade /\ IdleDelay /\ IdleLegacy /\ IdleProbes

\* The backoff strategies on their own: construction and delay calculations.
SpecDelay == InitDelayOnly /\ [][NextDelay]_vars

\* One process with the facade module and two users whose calls overlap.
SpecFacadeUsers == InitFacadeOnly /\ [][NextFacadeUsers]_vars

\* retryWithBackoff beside an execute() of a coordinator with the exponential strategy.
SpecLegacy == InitDelayOnly /\ [][NextLegacy]_vars

\* One adapter, one sequential caller, and the abandoned probes of its health checks.
SpecProbe == Init /\ [][NextProbe]_vars

----------------------------------------------------------------------------
(* Claims *)

Settled(c) == call[c].pc \in {"resolved", "rejected"}

\* C1: when two connect() calls are in progress at once on one adapter, the engine's
\* connect is invoked by only one of them (one handshake sequence, shared).
C1_ConcurrentConnectsShareOneHandshake ==
    \A c \in Callers : \A d \in Callers \ {c} :
        (call[c].op = "connect" /\ call[d].op = "connect" /\ InFlight(c) /\ InFlight(d))
        => ~(call[c].handshakes > 0 /\ call[d].handshakes > 0)

\* C2: once a connect() has succeeded and until a disconnect(), no call invokes the
\* engine handshake again (connect() on a connected adapter is a no-op).
C2_ConnectedAdapterNeverHandshakesAgain ==
    [][lifecycle = "connected"
       => \A c \in Callers : call'[c].handshakes <= call[c].handshakes]_vars

\* C3: after connect() rejected because every handshake attempt failed, isConnected()
\* is false.
C3_ExhaustedConnectLeavesDisconnected ==
    \A c \in Callers :
        (/\ call[c].op = "connect"
         /\ call[c].pc = "rejected"
         /\ call[c].exec.error = HandshakeError(call[c].exec.calls)
         /\ lifecycle = "connectFailed")
        => ~isConnected

\* C4: after disconnect() returned on a connected adapter, isConnected() is false and
\* no health-check helper is bound, whether the close succeeded or threw.
C4_DisconnectAlwaysDropsState ==
    \A c \in Callers :
        (call[c].op = "disconnect" /\ Settled(c) /\ call[c].pre.connected
         /\ call[c].pre.helper)
        => (~isConnected /\ healthCheckProvider = NoHelper)

C6_QueryNotInitializedUnlessConnected ==
    \A c \in Callers :
        (call[c].op = "query" /\ Settled(c) /\ lifecycle # "connected")
        => (call[c].pc = "rejected"
            /\ call[c].result = KitiumError("not_initialized", NoError))

\* C7: healthCheck() never rejects, and with no helper bound it returns an unhealthy
\* report with the not-initialized detail.
C7_HealthCheckNeverThrows ==
    \A c \in Callers :
        call[c].op = "healthCheck"
        => /\ call[c].pc # "rejected"
           /\ call[c].pc = "resolved" => call[c].result.kind = "report"
           /\ ~call[c].pre.helper
                => (/\ call[c].pc = "resolved"
                    /\ call[c].result = Report("unhealthy", NotInitializedMessage))

C7_Witness ==
    \E c \in Callers :
        /\ call[c].op = "healthCheck" /\ call[c].pc = "resolved"
        /\ ~call[c].pre.helper /\ lifecycle = "connectFailed"
        /\ call[c].result.status = "unhealthy"

\* C8: a helper's check() always returns a report: ready exactly when the probe
\* succeeded before the timer, unhealthy with the timeout message when the timer
\* fired first, and a started check never stays pending.
C8_CheckAlwaysReports ==
    /\ [](\A c \in Callers :
            (call[c].op = "healthCheck" /\ call[c].pc = "resolved")
            => /\ call[c].result.status = "ready" <=> call[c].settledBy = "probeResolved"
               /\ call[c].settledBy = "timer"
                    => call[c].result = Report("unhealthy",
                                               TimeoutMessage(call[c].timeoutMs)))
    /\ \A c \in Callers :
            (call[c].pc = "probing")
            ~> (call[c].pc = "resolved" /\ call[c].result.kind = "report")

C8_Witness ==
    \E c \in Callers :
        /\ call[c].op = "healthCheck" /\ call[c].pc = "resolved"
        /\ call[c].settledBy = "timer"
        /\ call[c].result = Report("unhealthy", TimeoutMessage(DefaultTimeoutMs))

\* C9: execute() with maxRetries = N on an operation that fails on every call makes
\* exactly N + 1 calls and rejects with the last call's error itself.
C9_AlwaysFailingRunsNPlusOneCalls ==
    \A x \in Execs :
        /\ exec[x].pc # "idle" => exec[x].calls <= exec[x].maxRetries + 1
        /\ (exec[x].pc = "rejected" /\ exec[x].error # HookError)
           => (/\ exec[x].calls = exec[x].maxRetries + 1
               /\ exec[x].error = OpError(exec[x].calls))

C9_Witness ==
    \E x \in Execs :
        /\ exec[x].pc = "rejected" /\ exec[x].maxRetries = 2 /\ exec[x].hook = "returns"
        /\ exec[x].calls = 3 /\ exec[x].error = OpError(3)

\* C10: execute() with maxRetries = 0 calls the operation once; a failure propagates
\* as thrown, with no onRetry call and no backoff delay.
C10_ZeroRetriesSingleAttempt ==
    \A x \in Execs :
        (exec[x].pc # "idle" /\ exec[x].maxRetries = 0)
        => /\ exec[x].calls = 1
           /\ exec[x].hookCalls = <<>>
           /\ exec[x].delays = <<>>
           /\ exec[x].pc # "sleep"
           /\ exec[x].pc = "rejected" => exec[x].error = OpError(1)

C10_Witness ==
    \E x \in Execs :
        /\ exec[x].pc = "rejected" /\ exec[x].maxRetries = 0 /\ exec[x].hook = "throws"
        /\ exec[x].calls = 1 /\ exec[x].error = OpError(1)

\* C11: with the exponential strategy, a connect() whose handshake failed k times and
\* then succeeded resolves after exactly k retry callbacks numbered 1..k and k backoff
\* delays baseDelay * 2^0 .. baseDelay * 2^(k-1) in that order, k + 1 handshakes and
\* nothing more, and isConnected() is true.
C11_ConnectRetriesWithExponentialDelays ==
    \A c \in Callers :
        (call[c].op = "connect" /\ call[c].pc = "resolved"
         /\ adapterStrategy = "exponential")
        => LET e == call[c].exec
               k == e.calls - 1
           IN /\ e.pc = "resolved"
              /\ k <= e.maxRetries
              /\ call[c].handshakes = k + 1
              /\ e.hookCalls = [i \in 1 .. k |-> i]
              /\ e.delays = [i \in 1 .. k |-> e.baseDelay * Pow2(i - 1)]
              /\ isConnected

C11_Witness ==
    \E c \in Callers :
        /\ call[c].op = "connect" /\ call[c].pc = "resolved"
        /\ adapterStrategy = "exponential"
        /\ call[c].exec.maxRetries = 2 /\ call[c].exec.baseDelay = 100
        /\ call[c].handshakes = 3
        /\ call[c].exec.hookCalls = <<1, 2>>
        /\ call[c].exec.delays = <<100, 200>>
        /\ isConnected

\* C12: a connect() whose configuration lacks the connection URL fails on the first
\* run of the operation: no handshake, no retry, no retry callback, no backoff delay.
C12_MalformedConfigFailsFast ==
    \A c \in Callers :
        (call[c].op = "connect" /\ call[c].exec.error = ConfigError)
        => /\ call[c].handshakes = 0
           /\ call[c].exec.calls = 1
           /\ call[c].exec.hookCalls = <<>>
           /\ call[c].exec.delays = <<>>

\* C13: checkAll() never rejects and returns one report per adapter held when it was
\* called, in order: the adapter's own report, or for an adapter whose healthCheck()
\* rejected an unhealthy report with the error message and a timestamp.
C13_CheckAllReportsEveryAdapter ==
    ocall.op = "checkAll"
    => /\ ocall.pc # "rejected"
       /\ ocall.pc = "resolved"
            => /\ Len(ocall.reports) = Len(ocall.heldAtCall)
               /\ \A i \in 1 .. Len(ocall.heldAtCall) :
                    LET a == ocall.heldAtCall[i]
                        out == ocall.slots[i]
                    IN IF out.status = "rejects"
                       THEN ocall.reports[i] =
                              [service |-> NameOf(a), status |-> "unhealthy",
                               details |-> [error |-> AdapterError, timestamp |-> TRUE]]
                       ELSE ocall.reports[i] = AdapterReport(a, out)

C13_Witness ==
    /\ ocall.op = "checkAll" /\ ocall.pc = "resolved" /\ Len(ocall.reports) = 3
    /\ ocall.slots[1].status = "rejects" /\ ocall.reports[1].status = "unhealthy"
    /\ ocall.reports[2].status = "ready" /\ ocall.reports[3].status = "initializing"

\* C14: while checkAll() waits, the health check of every held adapter has been
\* started; it resolves only when all have settled, at the time of the slowest one.
C14_CheckAllFansOutAndWaitsForAll ==
    ocall.op = "checkAll"
    => /\ Len(ocall.slots) = Len(ocall.heldAtCall)
       /\ ocall.pc = "awaiting"
            => \A i \in 1 .. Len(ocall.slots) : ocall.slots[i].status # "notStarted"
       /\ ocall.pc = "resolved"
            => /\ \A i \in 1 .. Len(ocall.slots) :
                    /\ ocall.slots[i].status \notin {"pending", "notStarted"}
                    /\ ocall.slots[i].duration <= ocall.clock
               /\ Len(ocall.slots) > 0
                    => \E i \in 1 .. Len(ocall.slots) : ocall.slots[i].duration = ocall.clock

C14_Witness ==
    /\ ocall.op = "checkAll" /\ ocall.pc = "resolved" /\ Len(ocall.reports) = 2
    /\ ocall.slots[1].duration = 0 /\ ocall.reports[1].status = "ready"
    /\ ocall.slots[2].timedOut
    /\ ocall.reports[2].status = "unhealthy"
    /\ ocall.reports[2].details.error = TimeoutMessage(DefaultTimeoutMs)
    /\ ocall.clock = DefaultTimeoutMs

\* C15: getAggregatedStatus() is unhealthy with no adapters, ready when every report
\* is ready, degraded when some but not all reports are ready.
C15_AggregatedStatusCases ==
    (ocall.op = "getAggregatedStatus" /\ ocall.pc = "resolved")
    => LET n == Len(ocall.reports)
           ready == {i \in 1 .. n : ocall.reports[i].status = "ready"}
       IN /\ n = Len(ocall.heldAtCall)
          /\ n = 0 => ocall.value = "unhealthy"
          /\ (n > 0 /\ Cardinality(ready) = n) => ocall.value = "ready"
          /\ (Cardinality(ready) > 0 /\ Cardinality(ready) < n) => ocall.value = "degraded"

C15_Witness ==
    /\ ocall.op = "getAggregatedStatus" /\ ocall.pc = "resolved" /\ Len(ocall.reports) = 2
    /\ ocall.reports[1].status = "ready" /\ ocall.reports[2].status = "unhealthy"
    /\ ocall.value = "degraded"

\* C16: getAggregatedStatus() is ready whenever at least one adapter is held and no
\* report is unhealthy, for reports with status ready, initializing or unhealthy.
C16_ReadyWhenNoneUnhealthy ==
    (ocall.op = "getAggregatedStatus" /\ ocall.pc = "resolved"
     /\ Len(ocall.reports) > 0
     /\ \A i \in 1 .. Len(ocall.reports) : ocall.reports[i].status # "unhealthy")
    => ocall.value = "ready"

\* C17: isHealthy() is true exactly when every report of its checkAll(), one per
\* adapter held when it was called, has status ready.
C17_IsHealthyIffEveryReportReady ==
    (ocall.op = "isHealthy" /\ ocall.pc = "resolved")
    => /\ Len(ocall.reports) = Len(ocall.heldAtCall)
       /\ ocall.value \in {"true", "false"}
       /\ ocall.value = "true"
            <=> \A i \in 1 .. Len(ocall.reports) : ocall.reports[i].status = "ready"

C17_Witness ==
    /\ ocall.op = "isHealthy" /\ ocall.pc = "resolved" /\ Len(ocall.reports) = 2
    /\ ocall.reports[1].status = "ready" /\ ocall.reports[2].status = "initializing"
    /\ ocall.value = "false"

\* C18: check(name) rejects with not-found exactly when no adapter held at the call
\* has that name; otherwise it resolves with the first such adapter's report, a
\* rejected healthCheck() being converted into an unhealthy report.
C18_CheckFindsOrFailsNotFound ==
    (ocall.op = "check" /\ ocall.pc \in {"resolved", "rejected"})
    => LET held == {i \in 1 .. Len(ocall.heldAtCall) :
                       NameOf(ocall.heldAtCall[i]) = ocall.name}
       IN /\ ocall.pc = "rejected" <=> held = {}
          /\ ocall.pc = "rejected" => ocall.error = NotFoundError(ocall.name)
          /\ ocall.pc = "resolved"
               => LET a == ocall.heldAtCall[CHOOSE i \in held : \A j \in held : i <= j]
                      out == ocall.slots[1]
                  IN /\ ocall.snapshot = <<a>>
                     /\ Len(ocall.reports) = 1
                     /\ ocall.reports[1].service = ocall.name
                     /\ IF out.status = "rejects"
                        THEN /\ ocall.reports[1].status = "unhealthy"
                             /\ ocall.reports[1].details.error = AdapterError
                        ELSE ocall.reports[1] = AdapterReport(a, out)

C18_Witness ==
    /\ ocall.op = "check" /\ ocall.pc = "rejected"
    /\ ocall.name \in removedNames
    /\ Len(adapters) > 0
    /\ ocall.error = NotFoundError(ocall.name)

\* C19: register() of an adapter whose name is already registered throws and leaves
\* the registry as it was (same adapter under that name, same count), and no name
\* is ever registered twice.
C19_DuplicateRegisterThrows ==
    /\ \A i, j \in 1 .. Len(registry) : i # j => registry[i].name # registry[j].name
    /\ (rcall.op = "register"
        /\ \E i \in 1 .. Len(rcall.before) : rcall.before[i].name = rcall.name)
       => /\ rcall.error = AlreadyRegisteredError(rcall.name)
          /\ registry = rcall.before
          /\ count(registry) = count(rcall.before)
          /\ MapGet(registry, rcall.name) = MapGet(rcall.before, rcall.name)

C19_Witness ==
    /\ rcall.op = "register" /\ rcall.error = AlreadyRegisteredError("postgres")
    /\ rcall.adapter = "pg2" /\ MapGet(registry, "postgres") = "pg1"
    /\ count(registry) = 2

\* C20: the number of retained query samples never exceeds the ceiling
\* maxMetricsSize, the oldest samples being evicted first.
C20_QuerySamplesBoundedByCeiling ==
    /\ Len(queryMetrics) <= maxMetricsSize
    /\ \A i \in 1 .. Len(queryMetrics) - 1 : queryMetrics[i].id < queryMetrics[i + 1].id

\* C21: recordDisconnection(h) changes no connection sample other than the one for
\* which recordConnection returned h; that sample, if still stored, gets
\* disconnectedAt and duration.
C21_DisconnectionTouchesOnlyItsSample ==
    mcall.op = "recordDisconnection"
    => /\ Len(connectionMetrics) = Len(mcall.before)
       /\ \A i \in 1 .. Len(connectionMetrics) :
            IF connectionMetrics[i].id = mcall.id
            THEN connectionMetrics[i].disconnectedAt # Undefined
            ELSE connectionMetrics[i] = mcall.before[i]

\* C22: getSnapshot() on a collector holding no samples returns zero for every count
\* and for the average and slowest duration, never NaN.
C22_EmptySnapshotIsAllZero ==
    mcall.op = "getSnapshot"
    => /\ mcall.snapshot.queries.averageDuration # NaN
       /\ (Len(queryMetrics) = 0 /\ Len(connectionMetrics) = 0)
          => mcall.snapshot =
               [queries |-> [total |-> 0, successful |-> 0, failed |-> 0,
                             averageDuration |-> Zero, slowestDuration |-> 0],
                connections |-> [active |-> 0, totalAttempts |-> 0,
                                 successfulConnections |-> 0, failedConnections |-> 0]]

C22_Witness ==
    /\ mcall.op = "getSnapshot"
    /\ Len(queryMetrics) = 0 /\ Len(connectionMetrics) = 0
    /\ recorded > 0
    /\ mcall.snapshot.queries.total = 0
    /\ mcall.snapshot.queries.averageDuration = Zero

\* C23: an initializeDatabase() call made while the facade is initialized resolves
\* with the held handle and starts no handshake; while the facade is initialized no
\* step creates an instance.
C23_InitializeIsIdempotent ==
    /\ [](\A u \in FacadeUsers :
            (fcall[u].op = "initializeDatabase" /\ fcall[u].pc \in {"resolved", "rejected"}
             /\ fcall[u].pre.initialized)
            => /\ fcall[u].pc = "resolved"
               /\ fcall[u].result = FacadeHandle(fcall[u].pre.instance)
               /\ ~fcall[u].started)
    /\ [][Initialized => facade'.created = facade.created]_vars

C23_Witness ==
    \E u \in FacadeUsers :
        /\ fcall[u].op = "initializeDatabase" /\ fcall[u].pc = "resolved"
        /\ fcall[u].pre.initialized /\ ~fcall[u].started
        /\ fcall[u].result = FacadeHandle(facade.instance)
        /\ facade.created = 1

\* C24: the SIGINT / SIGTERM handlers are registered at most once, and exactly once
\* as soon as an initialization has succeeded, however many instances are created.
C24_HandlersRegisteredOnce ==
    /\ facade.registrations <= 1
    /\ facade.isShutdownRegistered <=> facade.registrations = 1
    /\ (\E id \in 1 .. MaxInits : finst[id].status = "connected")
       => facade.registrations = 1

C24_Witness ==
    /\ facade.registrations = 1
    /\ facade.created = 2
    /\ finst[1].status = "connected" /\ finst[1].closes > 0
    /\ finst[2].status = "connected"

\* C25: at most one signal handler passes the reentrancy guard: signals start the
\* disconnect at most once, and no instance is closed twice by signals.
C25_SecondSignalIgnored ==
    /\ Cardinality({sig \in Signals : fcall[sig].pc = "disconnecting"}) <= 1
    /\ \A id \in 1 .. MaxInits : finst[id].signalCloses <= 1
    /\ Cardinality({id \in 1 .. MaxInits : finst[id].signalCloses > 0}) <= 1

C25_Witness ==
    /\ ignoredSignals # {}
    /\ \E sig \in Signals : fcall[sig].pc = "disconnecting"
    /\ \E id \in 1 .. MaxInits : finst[id].signalCloses = 1

\* C26: a signal-triggered disconnectDatabase never rejects, leaves the facade
\* uninitialized when it completes (getDatabase() throws not-initialized), and
\* always completes, even when the underlying disconnect never settles.
C26_SignalShutdownAlwaysCompletes ==
    /\ [](\A sig \in Signals : fcall[sig].pc # "rejected")
    /\ [][\A sig \in Signals :
            (fcall[sig].pc = "disconnecting" /\ fcall'[sig].pc # "disconnecting")
            => /\ fcall'[sig].pc = "resolved"
               /\ facade'.instance = Null
               /\ getDatabase(facade', finst') = FacadeError(FacadeNotInitialized)]_vars
    /\ \A sig \in Signals :
            (fcall[sig].pc = "disconnecting") ~> (fcall[sig].pc = "resolved")

C26_Witness ==
    \E sig \in Signals :
        /\ fcall[sig].op = "handleSignal" /\ fcall[sig].pc = "resolved"
        /\ fcall[sig].by = "timer"
        /\ facade.instance = Null
        /\ getDatabase(facade, finst) = FacadeError(FacadeNotInitialized)

\* C30: after initializeDatabase() rejected because its handshake failed, the facade
\* holds no instance: getDatabase() throws not-initialized and the next
\* initializeDatabase() creates a new instance.
C30_FailedInitializeLeavesUninitialized ==
    \A u \in OneUser :
        (fcall[u].op = "initializeDatabase" /\ fcall[u].pc = "rejected"
         /\ fcall[u].by = "connectRejected")
        => /\ facade.instance = Null
           /\ getDatabase(facade, finst) = FacadeError(FacadeNotInitialized)

\* C27: for attempts 0 .. MaxAttempt and base delay d, the exponential strategy
\* returns d * 2^attempt, the linear strategy d * (attempt + 1), and the jitter
\* strategy a value between d * 2^attempt and d * 2^attempt * (1 + jitterFactor).
C27_DelaysFollowTheirFormulas ==
    /\ dcall.strategy = "exponential"
       => dcall.result = Whole(dcall.baseDelay * (2 ^ dcall.attempt))
    /\ dcall.strategy = "linear"
       => dcall.result = Whole(dcall.baseDelay * (dcall.attempt + 1))
    /\ dcall.strategy = "jitter"
       => /\ dcall.result.den = FactorSteps * RandomSteps
          /\ dcall.baseDelay * (2 ^ dcall.attempt) * dcall.result.den
                <= dcall.result.num
          /\ dcall.result.num * FactorSteps
                <= dcall.baseDelay * (2 ^ dcall.attempt)
                   * (FactorSteps + dcall.jitterFactor) * dcall.result.den

C27_Witness ==
    /\ dcall.strategy = "jitter"
    /\ dcall.attempt = MaxAttempt
    /\ dcall.baseDelay = 1000
    /\ dcall.jitterFactor = FactorSteps
    /\ dcall.random = RandomSteps - 1
    /\ dcall.result.num > dcall.baseDelay * (2 ^ dcall.attempt) * dcall.result.den

\* C28: constructing the jitter strategy throws exactly when the jitterFactor is
\* below 0 or above 1, so no delay is ever calculated with such a factor.
C28_JitterFactorValidated ==
    /\ jitter.state = "threw" <=> (jitter.input < 0 \/ jitter.input > FactorSteps)
    /\ jitter.state = "threw" => jitter.error = JitterFactorError
    /\ jitter.state = "constructed"
       => jitter.input \in 0 .. FactorSteps /\ jitter.jitterFactor = jitter.input
    /\ dcall.strategy = "jitter" => dcall.jitterFactor \in 0 .. FactorSteps

C28_Witness ==
    /\ jitter.state = "threw"
    /\ jitter.input = FactorSteps + 5
    /\ dcall.strategy = "jitter"
    /\ dcall.jitterFactor = FactorSteps

\* C29: whenever a connect() call resolves, the adapter is connected at that moment
\* and its health-check helper is bound to the client it holds, whatever other calls
\* ran during the handshake.
C29_ResolvedConnectIsConnected ==
    [][\A c \in Callers :
          (call[c].op = "connect" /\ call[c].pc = "handshake" /\ call'[c].pc = "resolved")
          => /\ client' # Null
             /\ healthCheckProvider' # NoHelper
             /\ healthCheckProvider'.client = client']_vars

\* C31: every client handle an initializeDatabase() call resolved with belongs to an
\* instance whose handshake has completed successfully.
C31_HandleOnlyAfterHandshake ==
    \A u \in FacadeUsers :
        (fcall[u].op = "initializeDatabase" /\ fcall[u].pc = "resolved")
        => /\ fcall[u].result.kind = "handle"
           /\ finst[fcall[u].result.id].status = "connected"

\* C32: when the onRetry hook throws, execute() rejects with the hook's error at
\* once: the hook ran once, no delay was taken and the operation was called once.
C32_ThrowingHookEscapes ==
    \A x \in Execs :
        exec[x].hook = "throws"
        => /\ exec[x].pc # "sleep"
           /\ exec[x].delays = <<>>
           /\ exec[x].pc # "idle" => exec[x].calls = 1
           /\ exec[x].hookCalls # <<>>
                => /\ exec[x].hookCalls = <<1>>
                   /\ exec[x].pc = "rejected"
                   /\ exec[x].error = HookError

C32_Witness ==
    \E x \in Execs :
        /\ exec[x].hook = "throws" /\ exec[x].maxRetries = 2
        /\ exec[x].pc = "rejected" /\ exec[x].error = HookError
        /\ exec[x].hookCalls = <<1>> /\ exec[x].calls = 1 /\ exec[x].delays = <<>>

\* C39: overlapping execute() calls keep their own attempt counters: each call has
\* invoked its operation attempt + 1 <= maxRetries + 1 times, and its i-th delay is a
\* strategy's delay for attempt index i - 1 with that call's base delay.
C39_OverlappingExecutesIndependent ==
    \A x \in Execs :
        exec[x].pc # "idle"
        => /\ exec[x].calls = exec[x].attempt + 1
           /\ exec[x].calls <= exec[x].maxRetries + 1
           /\ Len(exec[x].delays) = exec[x].attempt + (IF exec[x].pc = "sleep" THEN 1 ELSE 0)
           /\ \A i \in 1 .. Len(exec[x].delays) :
                 \E s \in Strategies :
                     exec[x].delays[i] = calculateDelay(s, i - 1, exec[x].baseDelay)

C39_Witness ==
    \E x \in Execs : \E y \in Execs \ {x} :
        /\ exec[x].pc = "sleep" /\ exec[x].attempt = 1 /\ Len(exec[x].delays) = 2
        /\ exec[y].pc = "sleep" /\ exec[y].attempt = 0 /\ Len(exec[y].delays) = 1
        /\ exec[x].baseDelay # exec[y].baseDelay

\* C38: given the same retries >= 0, delay, hook and failure pattern, the legacy
\* retryWithBackoff and execute() with the exponential strategy end with the same
\* trace: invocations, onRetry arguments, delays, and result or error.
C38_LegacyRetryEquivalent ==
    (/\ legacy.explicit
     /\ legacy.run.pc \in {"resolved", "rejected"}
     /\ exec[PairedExec].pc \in {"resolved", "rejected"})
    => /\ legacy.run.pc = exec[PairedExec].pc
       /\ legacy.run.calls = exec[PairedExec].calls
       /\ legacy.run.hookCalls = exec[PairedExec].hookCalls
       /\ legacy.run.delays = exec[PairedExec].delays
       /\ legacy.run.error = exec[PairedExec].error

C38_Witness ==
    /\ legacy.explicit
    /\ legacy.run.pc = "rejected" /\ exec[PairedExec].pc = "rejected"
    /\ legacy.run.retries = 2 /\ legacy.run.hook = "returns"
    /\ legacy.run.calls = 3 /\ exec[PairedExec].calls = 3
    /\ legacy.run.delays = <<100, 200>>
    /\ legacy.run.hookCalls = <<1, 2>>
    /\ legacy.run.error = OpError(3)

\* C35: the late settlement of a probe abandoned by a timed-out health check changes
\* no adapter, helper or call state, and every resolved health check of a bound
\* helper reports what its own probe or timer decided.
C35_AbandonedProbeHasNoEffect ==
    /\ [][abandoned' \subseteq abandoned /\ abandoned' # abandoned
          => /\ call' = call
             /\ client' = client
             /\ healthCheckProvider' = healthCheckProvider
             /\ lifecycle' = lifecycle]_vars
    /\ [](\A c \in Callers :
            (call[c].op = "healthCheck" /\ call[c].pc = "resolved" /\ call[c].pre.helper)
            => \/ /\ call[c].settledBy = "probeResolved"
                  /\ call[c].result = Report("ready", NoError)
               \/ /\ call[c].settledBy = "probeRejected"
                  /\ call[c].result = Report("unhealthy", ProbeError)
               \/ /\ call[c].settledBy = "timer"
                  /\ call[c].result = Report("unhealthy", TimeoutMessage(call[c].timeoutMs)))

C35_Witness ==
    \E c \in Callers :
        /\ c \notin abandoned
        /\ call[c].op = "healthCheck" /\ call[c].pc = "resolved"
        /\ call[c].settledBy = "timer"
        /\ call[c].result.status = "unhealthy"

\* C34: a getSnapshot() call leaves the stored samples unchanged and counts exactly
\* the samples younger than maxAge: total = successful + failed for queries and for
\* connection attempts, and active is the number of in-window connection samples
\* with no disconnectedAt.
C34_SnapshotAggregatesWindow ==
    [][(mcall'.op = "getSnapshot" /\ now' = now)
       => LET Q == {i \in 1 .. Len(queryMetrics) : now - queryMetrics[i].timestamp < maxAge}
              K == {i \in 1 .. Len(connectionMetrics) :
                       now - connectionMetrics[i].connectedAt < maxAge}
              q == mcall'.snapshot.queries
              k == mcall'.snapshot.connections
          IN /\ queryMetrics' = queryMetrics
             /\ connectionMetrics' = connectionMetrics
             /\ q.total = Cardinality(Q)
             /\ q.successful = Cardinality({i \in Q : queryMetrics[i].success})
             /\ q.failed = Cardinality({i \in Q : ~queryMetrics[i].success})
             /\ q.total = q.successful + q.failed
             /\ k.totalAttempts = Cardinality(K)
             /\ k.successfulConnections = Cardinality({i \in K : connectionMetrics[i].success})
             /\ k.failedConnections = Cardinality({i \in K : ~connectionMetrics[i].success})
             /\ k.totalAttempts = k.successfulConnections + k.failedConnections
             /\ k.active = Cardinality({i \in K :
                                          connectionMetrics[i].disconnectedAt = Undefined})]_vars

C34_Witness ==
    /\ mcall.op = "getSnapshot"
    /\ Len(queryMetrics) = 2 /\ mcall.snapshot.queries.total = 1
    /\ Len(connectionMetrics) = 1 /\ mcall.snapshot.connections.totalAttempts = 1
    /\ mcall.snapshot.connections.active = 1
    /\ now - queryMetrics[1].timestamp = maxAge

\* C36: once a connection sample has its disconnectedAt and duration, no step
\* changes those two fields of that sample.
C36_ConnectionSampleMutatedOnce ==
    [][\A i \in 1 .. Len(connectionMetrics) : \A j \in 1 .. Len(connectionMetrics') :
          (/\ connectionMetrics[i].id = connectionMetrics'[j].id
           /\ connectionMetrics[i].disconnectedAt # Undefined)
          => /\ connectionMetrics'[j].disconnectedAt = connectionMetrics[i].disconnectedAt
             /\ connectionMetrics'[j].duration = connectionMetrics[i].duration]_vars

\* C40: in every snapshot, connections.active is at most
\* connections.successfulConnections.
C40_ActiveAtMostSuccessful ==
    mcall.op = "getSnapshot"
    => mcall.snapshot.connections.active <= mcall.snapshot.connections.successfulConnections

\* C37: for the reports of a resolved isHealthy() or getAggregatedStatus() call,
\* isHealthy is true exactly when getAggregatedStatus is 'ready'.
C37_HealthyIffAggregatedReady ==
    /\ (ocall.op = "isHealthy" /\ ocall.pc = "resolved")
       => (ocall.value = "true" <=> getAggregatedStatus(ocall.reports) = "ready")
    /\ (ocall.op = "getAggregatedStatus" /\ ocall.pc = "resolved")
       => (ocall.value = "ready" <=> isHealthy(ocall.reports))

\* C33: a signal delivered while the facade is initialized starts a disconnect; its
\* handler returns at the reentrancy guard only while a signal-triggered disconnect
\* is in flight.
C33_SignalWhileInitializedDisconnects ==
    [][\A sig \in Signals :
          (Initialized /\ sig \notin ignoredSignals /\ sig \in ignoredSignals')
          => \E s \in Signals : fcall[s].pc = "disconnecting"]_vars

====
